---- MODULE Spec2Model ----
(***************************************************************************)
(* Model of src/utils.rs of redlib: the URL canonicalizer (format_url),    *)
(* the media resolver (Media::parse, GalleryMedia::parse), the post        *)
(* builders (Post::fetch, parse_post) and filter_posts.                    *)
(*                                                                         *)
(* Text.  A Rust string is modelled as a sequence of atoms.  An atom is a  *)
(* TLA+ string that stands for exactly that piece of text; the string a    *)
(* sequence stands for is the concatenation of its atoms.  Every character *)
(* the regular expressions of utils.rs treat specially (":", "/", "?",     *)
(* ".", "\", "_", the quote, the newline) is an atom of its own, so a      *)
(* pattern never matches a part of an atom.                                *)
(***************************************************************************)
EXTENDS Integers, Sequences, FiniteSets, TLC

VARIABLES
    pc,       \* "call": the arguments are set; "ret": the function returned
    url,      \* format_url: the argument
    out,      \* format_url: the returned String
    posts,    \* filter_posts: the Vec<Post>, filtered in place
    filters,  \* filter_posts: the HashSet<String> of filters
    fret,     \* filter_posts: the returned (u64, bool)
    raw,      \* the raw post (a serde_json Value): the argument of parse_post,
              \* raw["data"] the argument of Media::parse, and the entry of
              \* the listing json() answers to Post::fetch
    env,      \* the configuration: REDLIB_PUSHSHIFT_FRONTEND, <<>> when unset
    resp,     \* Post::fetch: what json(path, quarantine) answered, call by call
    mret,     \* Media::parse: the returned (post_type, Media, gallery)
    built,    \* parse_post: the Post returned; Post::fetch: the Result
    text_in,  \* rewrite_urls: the argument of the first call
    text_out, \* rewrite_urls: the Strings returned, each call given the last
    num_in,   \* format_num: the argument
    nret,     \* format_num: the returned (String, String)
    created,  \* time: the argument
    now,      \* time: what OffsetDateTime::now_utc() answers
    tret,     \* time: the returned (String, String)
    items_in, \* Awards::parse: the argument
    awards    \* Awards::parse: the Awards returned

\* The arguments and results of rewrite_urls, format_num, time, Awards::parse.
pure == <<text_in, text_out, num_in, nret, created, now, tret, items_in, awards>>

vars == <<pc, url, out, posts, filters, fret, raw, env, resp, mret, built, pure>>

\* The value of a variable the running specification does not use.
Idle == <<"idle">>

\* None of the pure functions is in use.
PureIdle ==
    /\ text_in = Idle /\ text_out = Idle
    /\ num_in = Idle /\ nret = Idle
    /\ created = Idle /\ now = Idle /\ tret = Idle
    /\ items_in = Idle /\ awards = Idle

----------------------------------------------------------------------------
\* Bounds of the model.

\* Path segments after the host in the URLs format_url is given.
MaxSegs == 2
\* Length of the Vec<Post> filter_posts is given.
MaxPosts == 3
\* Entries of gallery_data.items.
MaxItems == 2
\* Pieces a body text given to rewrite_urls is put together from.
MaxPieces == 3
\* Calls of rewrite_urls in a row, each on what the last returned.
MaxPasses == 2

----------------------------------------------------------------------------
\* Text helpers.

Min(S) == CHOOSE x \in S : \A y \in S : x <= y
Max(S) == CHOOSE x \in S : \A y \in S : x >= y

\* lit occurs in s at position i.
MatchAt(s, i, lit) ==
    /\ i >= 1
    /\ i + Len(lit) - 1 <= Len(s)
    /\ SubSeq(s, i, i + Len(lit) - 1) = lit

StartsWith(s, p) == MatchAt(s, 1, p)

\* The last position `.*` reaches when it starts at position i: regex `.`
\* matches every character but the newline.  i - 1 when it matches nothing.
Eol(s, i) ==
    LET nl == {j \in i..Len(s) : s[j] = "\n"}
    IN  IF nl = {} THEN Len(s) ELSE Min(nl) - 1

RECURSIVE Join(_, _)
\* The segments of segs, each followed by sep, without the last sep.
Join(segs, sep) ==
    IF Len(segs) = 0 THEN <<>>
    ELSE IF Len(segs) = 1 THEN segs[1]
    ELSE segs[1] \o sep \o Join(Tail(segs), sep)

\* ASCII lower case, for the atoms the model writes in upper case.
Lower(a) ==
    CASE a = "HTTPS" -> "https"
      [] a = "I" -> "i"
      [] a = "REDD.IT" -> "redd.it"
      [] OTHER -> a

LowerAll(s) == [k \in 1..Len(s) |-> Lower(s[k])]

Digits == <<"0", "1", "2", "3", "4", "5", "6", "7", "8", "9">>

\* Number of characters of a run of decimal digits (0: not a digit atom).
DigitLen(a) ==
    CASE \E k \in 1..10 : Digits[k] = a -> 1
      [] a = "36" -> 2
      [] a = "360" -> 3
      [] a = "1080" -> 4
      [] a = "12345" -> 5
      [] OTHER -> 0

----------------------------------------------------------------------------
\* Url::parse of the url crate, as far as format_url uses it: whether the
\* string parses and the domain of the parsed URL.

SEP == <<":", "/", "/">>

\* The schemes the url crate calls special: they need a host.
SpecialSchemes == {"https", "http", "ftp"}
\* Other schemes (mailto:...): the URL parses and has no domain.
OtherSchemes == {"mailto"}
\* What ends the authority of a special URL.
HostDelims == {"/", "?", "#", "\\"}
\* Characters a host may not hold (':' stands for a port that is no number).
ForbiddenHost == {" ", "\"", "<", ">", ":"}

RECURSIVE SkipSlashes(_, _)
\* A special URL's authority starts after any run of slashes.
SkipSlashes(s, i) ==
    IF i <= Len(s) /\ s[i] \in {"/", "\\"} THEN SkipSlashes(s, i + 1) ELSE i

NotNewline(a) == a # "\n"

RECURSIVE TrimSpaces(_)
\* The parser drops the spaces around the input and the newlines in it.
TrimSpaces(s) ==
    IF s # <<>> /\ Head(s) = " " THEN TrimSpaces(Tail(s))
    ELSE IF s # <<>> /\ s[Len(s)] = " " THEN TrimSpaces(SubSeq(s, 1, Len(s) - 1))
    ELSE s

UrlParse(input) ==
    LET err == [ok |-> FALSE, domain |-> <<>>]
        s == SelectSeq(TrimSpaces(input), NotNewline)
    IN  IF Len(s) < 2 \/ s[2] # ":" THEN err
        ELSE IF Lower(s[1]) \in OtherSchemes THEN [ok |-> TRUE, domain |-> <<>>]
        ELSE IF Lower(s[1]) \notin SpecialSchemes THEN err
        ELSE LET a0 == SkipSlashes(s, 3)
                 ends == {j \in a0..Len(s) : s[j] \in HostDelims}
                 e == IF ends = {} THEN Len(s) ELSE Min(ends) - 1
                 ats == {j \in a0..e : s[j] = "@"}
                 h0 == IF ats = {} THEN a0 ELSE Max(ats) + 1
                 host == LowerAll(SubSeq(s, h0, e))
             IN  IF host = <<>> THEN err
                 ELSE IF \E k \in 1..Len(host) : host[k] \in ForbiddenHost THEN err
                 ELSE [ok |-> TRUE, domain |-> host]

----------------------------------------------------------------------------
\* The regular expressions of format_url.  Each operator answers what
\* Regex::captures answers on the text: no match, or the capture groups of
\* the leftmost match (groups are greedy).

NoCaps == [ok |-> FALSE, c1 |-> <<>>, c2 |-> <<>>]
Caps(a, b) == [ok |-> TRUE, c1 |-> a, c2 |-> b]

H_WWW == <<"www", ".", "reddit.com">>
H_OLD == <<"old", ".", "reddit.com">>
H_NP == <<"np", ".", "reddit.com">>
H_PLAIN == <<"reddit.com">>
H_VIDEOS == <<"v", ".", "redd.it">>
H_IMAGES == <<"i", ".", "redd.it">>
H_THUMBS_A == <<"a", ".", "thumbs", ".", "redditmedia.com">>
H_THUMBS_B == <<"b", ".", "thumbs", ".", "redditmedia.com">>
H_EMOJI == <<"emoji", ".", "redditmedia.com">>
H_PREVIEW == <<"preview", ".", "redd.it">>
H_EXTERNAL_PREVIEW == <<"external-preview", ".", "redd.it">>
H_STYLES == <<"styles", ".", "redditmedia.com">>
H_STATIC_MEDIA == <<"www", ".", "redditstatic.com">>

\* `https?://<host>/` matches the text at position i.
UrlHead(text, i, host) ==
    /\ i >= 1 /\ i <= Len(text)
    /\ text[i] \in {"https", "http"}
    /\ MatchAt(text, i + 1, SEP \o host \o <<"/">>)

HeadLen(host) == 1 + Len(SEP) + Len(host) + 1

\* `https?://<host>/(.*)`
HostRegex(host, text) ==
    LET I == {i \in 1..Len(text) : UrlHead(text, i, host)}
    IN  IF I = {} THEN NoCaps
        ELSE LET p == Min(I) + HeadLen(host)
             IN  Caps(SubSeq(text, p, Eol(text, p)), <<>>)

REGEX_URL_WWW(text) == HostRegex(H_WWW, text)
REGEX_URL_OLD(text) == HostRegex(H_OLD, text)
REGEX_URL_NP(text) == HostRegex(H_NP, text)
REGEX_URL_PLAIN(text) == HostRegex(H_PLAIN, text)
REGEX_URL_IMAGES(text) == HostRegex(H_IMAGES, text)
REGEX_URL_THUMBS_A(text) == HostRegex(H_THUMBS_A, text)
REGEX_URL_THUMBS_B(text) == HostRegex(H_THUMBS_B, text)
REGEX_URL_PREVIEW(text) == HostRegex(H_PREVIEW, text)
REGEX_URL_EXTERNAL_PREVIEW(text) == HostRegex(H_EXTERNAL_PREVIEW, text)
REGEX_URL_STYLES(text) == HostRegex(H_STYLES, text)
REGEX_URL_STATIC_MEDIA(text) == HostRegex(H_STATIC_MEDIA, text)

\* The last atom of the run of digits that starts at k (k - 1: no digit).
DigitRunEnd(s, k) ==
    LET nd == {j \in k..Len(s) : DigitLen(s[j]) = 0}
    IN  IF nd = {} THEN Len(s) ELSE Min(nd) - 1

RECURSIVE RunChars(_, _, _)
RunChars(s, k, e) == IF k > e THEN 0 ELSE DigitLen(s[k]) + RunChars(s, k + 1, e)

\* `(\.mp4|$|\?source=fallback)` at position t: the first alternative that
\* matches (`$` is the end of the text).
DashTerm(s, t) ==
    IF MatchAt(s, t, <<".", "mp4">>) THEN [ok |-> TRUE, t |-> <<".", "mp4">>]
    ELSE IF t = Len(s) + 1 THEN [ok |-> TRUE, t |-> <<>>]
    ELSE IF MatchAt(s, t, <<"?", "source=fallback">>)
         THEN [ok |-> TRUE, t |-> <<"?", "source=fallback">>]
    ELSE [ok |-> FALSE, t |-> <<>>]

\* `/DASH_([0-9]{2,4}(\.mp4|$|\?source=fallback))` matches at position j: the
\* digits are two to four and the terminator follows them (a fifth digit is
\* no terminator).
DashAt(s, j) ==
    /\ MatchAt(s, j, <<"/", "DASH_">>)
    /\ LET e == DigitRunEnd(s, j + 2)
           n == RunChars(s, j + 2, e)
       IN  n >= 2 /\ n <= 4 /\ DashTerm(s, e + 1).ok

\* `https?://v\.redd\.it/(.*)/DASH_([0-9]{2,4}(\.mp4|$|\?source=fallback))`
REGEX_URL_VIDEOS(text) ==
    LET J(i) == {j \in (i + HeadLen(H_VIDEOS))..Eol(text, i + HeadLen(H_VIDEOS)) :
                    DashAt(text, j)}
        I == {i \in 1..Len(text) : UrlHead(text, i, H_VIDEOS) /\ J(i) # {}}
    IN  IF I = {} THEN NoCaps
        ELSE LET i == Min(I)
                 p == i + HeadLen(H_VIDEOS)
                 j == Max(J(i))
                 e == DigitRunEnd(text, j + 2)
             IN  Caps(SubSeq(text, p, j - 1),
                      SubSeq(text, j + 2, e) \o DashTerm(text, e + 1).t)

\* `https?://v\.redd\.it/(.+)/(HLSPlaylist\.m3u8.*)$`
REGEX_URL_VIDEOS_HLS(text) ==
    LET J(i) == {j \in (i + HeadLen(H_VIDEOS) + 1)..Len(text) :
                    /\ MatchAt(text, j, <<"/", "HLSPlaylist.m3u8">>)
                    /\ Eol(text, i + HeadLen(H_VIDEOS)) = Len(text)}
        I == {i \in 1..Len(text) : UrlHead(text, i, H_VIDEOS) /\ J(i) # {}}
    IN  IF I = {} THEN NoCaps
        ELSE LET i == Min(I)
                 p == i + HeadLen(H_VIDEOS)
                 j == Max(J(i))
             IN  Caps(SubSeq(text, p, j - 1), SubSeq(text, j + 1, Len(text)))

\* `https?://emoji\.redditmedia\.com/(.*)/(.*)`
REGEX_URL_EMOJI(text) ==
    LET J(i) == {j \in (i + HeadLen(H_EMOJI))..Eol(text, i + HeadLen(H_EMOJI)) :
                    text[j] = "/"}
        I == {i \in 1..Len(text) : UrlHead(text, i, H_EMOJI) /\ J(i) # {}}
    IN  IF I = {} THEN NoCaps
        ELSE LET i == Min(I)
                 p == i + HeadLen(H_EMOJI)
                 j == Max(J(i))
             IN  Caps(SubSeq(text, p, j - 1), SubSeq(text, j + 1, Eol(text, p)))

----------------------------------------------------------------------------
\* format_url

Sentinels == {<<"self">>, <<"default">>, <<"nsfw">>, <<"spoiler">>}

\* A capture closure that joins the first capture only.
capture_first_only(caps, format, segments) ==
    IF ~caps.ok THEN <<>>
    ELSE CASE segments \in {1, 2} -> format \o caps.c1
           [] OTHER -> <<>>

\* The closure `capture` of format_url, given what regex.captures(url) answered.
capture(caps, format, segments) ==
    IF ~caps.ok THEN <<>>
    ELSE CASE segments = 1 -> format \o caps.c1
           [] segments = 2 -> format \o caps.c1 \o <<"/">> \o caps.c2
           [] OTHER -> <<>>

\* The macro chain! on two results: the first that is not empty.
chain(first, second) ==
    IF first = <<>> THEN (IF second = <<>> THEN <<>> ELSE second) ELSE first

\* The arms of `match domain`: the result for a URL whose domain is d.
Dispatch(d, u) ==
    CASE d = H_WWW -> capture(REGEX_URL_WWW(u), <<"/">>, 1)
      [] d = H_OLD -> capture(REGEX_URL_OLD(u), <<"/">>, 1)
      [] d = H_NP -> capture(REGEX_URL_NP(u), <<"/">>, 1)
      [] d = H_PLAIN -> capture(REGEX_URL_PLAIN(u), <<"/">>, 1)
      [] d = H_VIDEOS -> chain(capture(REGEX_URL_VIDEOS(u), <<"/", "vid", "/">>, 2),
                               capture(REGEX_URL_VIDEOS_HLS(u), <<"/", "hls", "/">>, 2))
      [] d = H_IMAGES -> capture(REGEX_URL_IMAGES(u), <<"/", "img", "/">>, 1)
      [] d = H_THUMBS_A -> capture(REGEX_URL_THUMBS_A(u), <<"/", "thumb", "/", "a", "/">>, 1)
      [] d = H_THUMBS_B -> capture(REGEX_URL_THUMBS_B(u), <<"/", "thumb", "/", "b", "/">>, 1)
      [] d = H_EMOJI -> capture(REGEX_URL_EMOJI(u), <<"/", "emoji", "/">>, 2)
      [] d = H_PREVIEW -> capture(REGEX_URL_PREVIEW(u), <<"/", "preview", "/", "pre", "/">>, 1)
      [] d = H_EXTERNAL_PREVIEW ->
             capture(REGEX_URL_EXTERNAL_PREVIEW(u), <<"/", "preview", "/", "external-pre", "/">>, 1)
      [] d = H_STYLES -> capture(REGEX_URL_STYLES(u), <<"/", "style", "/">>, 1)
      [] d = H_STATIC_MEDIA -> capture(REGEX_URL_STATIC_MEDIA(u), <<"/", "static", "/">>, 1)
      [] OTHER -> u

\* Mutant: a URL of a proxied domain that matches no pattern falls through to
\* "unchanged", as the URLs of other domains do.
format_url_fallthrough(u) ==
    IF u = <<>> \/ u \in Sentinels THEN <<>>
    ELSE LET parsed == UrlParse(u)
             r == Dispatch(parsed.domain, u)
         IN  IF ~parsed.ok THEN u ELSE IF r = <<>> THEN u ELSE r

\* format_url without "spoiler" among the values it drops.
format_url_no_spoiler(u) ==
    IF u = <<>> \/ u \in (Sentinels \ {<<"spoiler">>}) THEN <<>>
    ELSE LET parsed == UrlParse(u)
         IN  IF ~parsed.ok THEN u ELSE Dispatch(parsed.domain, u)

\* format_url that drops what does not parse.
format_url_drop_unparsed(u) ==
    IF u = <<>> \/ u \in Sentinels THEN <<>>
    ELSE LET parsed == UrlParse(u)
         IN  IF ~parsed.ok THEN <<>> ELSE Dispatch(parsed.domain, u)

format_url(u) ==
    IF u = <<>> \/ u \in Sentinels THEN <<>>
    ELSE LET parsed == UrlParse(u)
         IN  IF ~parsed.ok THEN u ELSE Dispatch(parsed.domain, u)

----------------------------------------------------------------------------
\* The strings format_url is given.

Schemes == {<<"https">>, <<"http">>, <<"ftp">>}

ProxiedDomains ==
    {H_WWW, H_OLD, H_NP, H_PLAIN, H_VIDEOS, H_IMAGES, H_THUMBS_A, H_THUMBS_B,
     H_EMOJI, H_PREVIEW, H_EXTERNAL_PREVIEW, H_STYLES, H_STATIC_MEDIA}

\* The authority of a URL: the proxied hosts, one in upper case, one with a
\* user name before it, and hosts that are not proxied.
Authorities ==
    ProxiedDomains \cup
    {<<"I", ".", "REDD.IT">>, <<"bob", "@", "v", ".", "redd.it">>,
     <<"example.com">>, <<"amp", ".", "reddit.com">>}

SegKinds ==
    {<<"foo">>, <<>>, <<"DASH_", "360">>, <<"DASH_", "360", ".", "mp4">>,
     <<"DASH_", "7">>, <<"HLSPlaylist.m3u8">>}

Suffixes == {<<>>, <<"?">>, <<"?", "source=fallback">>, <<"?", "a=b">>}

\* Nothing after the host, or "/" and up to MaxSegs segments and a query.
UrlTails ==
    {<<>>} \cup
    {<<"/">> \o Join(segs, <<"/">>) \o q :
        segs \in UNION {[1..n -> SegKinds] : n \in 0..MaxSegs}, q \in Suffixes}

NonUrls ==
    {<<>>, <<"foo">>, <<"/", "r", "/", "foo">>, <<"mailto", ":", "bob">>,
     <<"https", ":", "i", ".", "redd.it", "/", "foo">>,
     <<"https", ":", "/", "/">>,
     <<"https", ":", "/", "/", "i", ".", "redd.it", "\"", "/", "foo">>,
     <<"HTTPS", ":", "/", "/", "i", ".", "redd.it", "/", "foo">>,
     <<"https", ":", "/", "/", "v", ".", "redd.it", "/", "foo", "/", "DASH_", "12345">>,
     <<"https", ":", "/", "/", "v", ".", "redd.it", "/", "foo", "/", "DASH_", "36", "360">>,
     <<"https", ":", "/", "/", "v", ".", "redd.it", "/", "foo", "/", "DASH_", "1080", ".", "mp4",
       "?", "source=fallback">>,
     <<"https", ":", "/", "/", "v", ".", "redd.it", "/", "foo", "\n", "/", "DASH_", "360">>,
     <<"https", ":", "/", "/", "www", ".", "reddit.com", "/", "?", "u=",
       "https", ":", "/", "/", "i", ".", "redd.it", "/", "foo">>}

UrlInputs ==
    Sentinels \cup NonUrls \cup
    {sch \o SEP \o h \o t : sch \in Schemes, h \in Authorities, t \in UrlTails}

----------------------------------------------------------------------------
\* Specification of format_url: the argument is drawn, the function returns.

InitUrl ==
    /\ pc = "call"
    /\ url \in UrlInputs
    /\ out = Idle
    /\ posts = Idle /\ filters = Idle /\ fret = Idle
    /\ raw = Idle /\ env = Idle /\ resp = Idle /\ mret = Idle /\ built = Idle
    /\ PureIdle

FormatUrl ==
    /\ pc = "call"
    /\ pc' = "ret"
    /\ out' = format_url(url)
    /\ UNCHANGED <<url, posts, filters, fret, raw, env, resp, mret, built>>
    /\ UNCHANGED pure

NextUrl == FormatUrl

SpecUrl == InitUrl /\ [][NextUrl]_vars

----------------------------------------------------------------------------
\* Claims about format_url (checked under SpecUrl).

\* The local prefixes of the dispatch table, per proxied domain.
LocalPrefixes(d) ==
    CASE d \in {H_WWW, H_OLD, H_NP, H_PLAIN} -> {<<"/">>}
      [] d = H_VIDEOS -> {<<"/", "vid", "/">>, <<"/", "hls", "/">>}
      [] d = H_IMAGES -> {<<"/", "img", "/">>}
      [] d = H_THUMBS_A -> {<<"/", "thumb", "/", "a", "/">>}
      [] d = H_THUMBS_B -> {<<"/", "thumb", "/", "b", "/">>}
      [] d = H_EMOJI -> {<<"/", "emoji", "/">>}
      [] d = H_PREVIEW -> {<<"/", "preview", "/", "pre", "/">>}
      [] d = H_EXTERNAL_PREVIEW -> {<<"/", "preview", "/", "external-pre", "/">>}
      [] d = H_STYLES -> {<<"/", "style", "/">>}
      [] d = H_STATIC_MEDIA -> {<<"/", "static", "/">>}
      [] OTHER -> {}

\* The URL text has a shape the table knows for its domain d.
KnownShape(d, u) ==
    CASE d = H_WWW -> REGEX_URL_WWW(u).ok
      [] d = H_OLD -> REGEX_URL_OLD(u).ok
      [] d = H_NP -> REGEX_URL_NP(u).ok
      [] d = H_PLAIN -> REGEX_URL_PLAIN(u).ok
      [] d = H_VIDEOS -> REGEX_URL_VIDEOS(u).ok \/ REGEX_URL_VIDEOS_HLS(u).ok
      [] d = H_IMAGES -> REGEX_URL_IMAGES(u).ok
      [] d = H_THUMBS_A -> REGEX_URL_THUMBS_A(u).ok
      [] d = H_THUMBS_B -> REGEX_URL_THUMBS_B(u).ok
      [] d = H_EMOJI -> REGEX_URL_EMOJI(u).ok
      [] d = H_PREVIEW -> REGEX_URL_PREVIEW(u).ok
      [] d = H_EXTERNAL_PREVIEW -> REGEX_URL_EXTERNAL_PREVIEW(u).ok
      [] d = H_STYLES -> REGEX_URL_STYLES(u).ok
      [] d = H_STATIC_MEDIA -> REGEX_URL_STATIC_MEDIA(u).ok
      [] OTHER -> FALSE

\* The argument parsed as a URL of a proxied domain, and format_url returned.
ProxiedCall ==
    /\ pc = "ret"
    /\ url \notin Sentinels
    /\ UrlParse(url).ok
    /\ UrlParse(url).domain \in ProxiedDomains

\* C1: for a URL whose parsed domain is in the dispatch table, format_url
\* returns the empty string or a string that starts with the domain's local
\* prefix, never the URL itself; a URL of no known shape gives the empty
\* string.
C1_ProxiedNeverLeaks ==
    ProxiedCall =>
        /\ out # url
        /\ \/ out = <<>>
           \/ \E p \in LocalPrefixes(UrlParse(url).domain) : StartsWith(out, p)
        /\ ~KnownShape(UrlParse(url).domain, url) => out = <<>>

\* C1 witness: a v.redd.it URL with a user name in it, which no pattern
\* matches, was dropped.
C1_Witness ==
    /\ ProxiedCall
    /\ UrlParse(url).domain = H_VIDEOS
    /\ \E k \in 1..Len(url) : url[k] = "@"
    /\ out = <<>>

----------------------------------------------------------------------------
\* filter_posts.  Of a Post the function reads community and author.name; id
\* stands for the rest of the record.

\* ["u_", &p.author.name].concat()
UserFilter(name) == <<"u_">> \o name

\* Mutant: the closure looks up the community only.
Keep_community_only(p, fs) == ~(p.community \in fs)

\* The closure given to retain: the post stays.
Keep(p, fs) == ~(p.community \in fs \/ UserFilter(p.author.name) \in fs)

RECURSIVE retain(_, _)
\* Vec::retain with that closure: the kept elements, in order.
retain(v, fs) ==
    IF v = <<>> THEN <<>>
    ELSE (IF Keep(Head(v), fs) THEN <<Head(v)>> ELSE <<>>) \o retain(Tail(v), fs)

\* Mutant: the count returned is the length after the filter.
filter_posts_count_kept(v, fs) ==
    LET lb == Len(v)
    IN  IF v = <<>> THEN [posts |-> v, ret |-> <<0, FALSE>>]
        ELSE LET r == retain(v, fs)
                 la == Len(r)
             IN  [posts |-> r, ret |-> <<la, r = <<>>>>]

\* Mutant: no early return for the empty vector.
filter_posts_no_empty_check(v, fs) ==
    LET lb == Len(v)
        r == retain(v, fs)
        la == Len(r)
    IN  [posts |-> r, ret |-> <<lb - la, r = <<>>>>]

\* filter_posts: the vector after the call and the returned pair.
filter_posts(v, fs) ==
    LET lb == Len(v)
    IN  IF v = <<>> THEN [posts |-> v, ret |-> <<0, FALSE>>]
        ELSE LET r == retain(v, fs)
                 la == Len(r)
             IN  [posts |-> r, ret |-> <<lb - la, r = <<>>>>]

\* The posts and filters filter_posts is given.
PostPool ==
    [id : {1, 2},
     community : {<<"rust">>, <<"u_", "bob">>},
     author : [name : {<<"bob">>, <<"amy">>}]]

FilterNames == {<<"rust">>, <<"u_", "bob">>, <<"u_", "amy">>, <<"bob">>}

InitFilter ==
    /\ pc = "call"
    /\ posts \in UNION {[1..n -> PostPool] : n \in 0..MaxPosts}
    /\ filters \in SUBSET FilterNames
    /\ fret = Idle
    /\ url = Idle /\ out = Idle
    /\ raw = Idle /\ env = Idle /\ resp = Idle /\ mret = Idle /\ built = Idle
    /\ PureIdle

FilterPosts ==
    /\ pc = "call"
    /\ pc' = "ret"
    /\ posts' = filter_posts(posts, filters).posts
    /\ fret' = filter_posts(posts, filters).ret
    /\ UNCHANGED <<url, out, filters, raw, env, resp, mret, built>>
    /\ UNCHANGED pure

NextFilter == FilterPosts

SpecFilter == InitFilter /\ [][NextFilter]_vars

----------------------------------------------------------------------------
\* Claims about filter_posts (checked under SpecFilter).  A step from
\* pc = "call" to pc = "ret" is the call: posts is the vector before it,
\* posts' the vector after it.

\* The post is named by the blocklist.
Blocked(p, fs) == p.community \in fs \/ (<<"u_">> \o p.author.name) \in fs

Count(s, x) == Cardinality({i \in 1..Len(s) : s[i] = x})

RECURSIVE IsSubseq(_, _)
\* a is b with some elements left out.
IsSubseq(a, b) ==
    IF a = <<>> THEN TRUE
    ELSE IF b = <<>> THEN FALSE
    ELSE IF Head(a) = Head(b) THEN IsSubseq(Tail(a), Tail(b))
    ELSE IsSubseq(a, Tail(b))

FilterCall == pc = "call" /\ pc' = "ret"

\* C2: after the call the vector holds exactly the posts of the input that
\* the blocklist does not name, unchanged and in their order, and the count
\* returned is the number of posts it names.
C2_FilterExact ==
    [][FilterCall =>
        /\ IsSubseq(posts', posts)
        /\ \A p \in PostPool :
              Count(posts', p) = IF Blocked(p, filters) THEN 0 ELSE Count(posts, p)
        /\ fret'[1] = Cardinality({i \in 1..Len(posts) : Blocked(posts[i], filters)})
      ]_vars

\* C2 witness: two posts were removed and one stayed.
C2_Witness == pc = "ret" /\ fret # Idle /\ fret[1] = 2 /\ Len(posts) = 1

\* C3: the length after the call plus the count returned is the length
\* before it; the count is within 0..length before.
C3_LengthConserved ==
    [][FilterCall =>
        /\ Len(posts') + fret'[1] = Len(posts)
        /\ fret'[1] >= 0
        /\ fret'[1] <= Len(posts)
      ]_vars

\* C3 witness: one post was removed and two stayed.
C3_Witness == pc = "ret" /\ fret # Idle /\ fret[1] = 1 /\ Len(posts) = 2

\* C4: the flag returned is true iff the input was not empty and the vector
\* is empty after the call; an empty input gives (0, false) and stays empty.
C4_AllRemoved ==
    [][FilterCall =>
        /\ fret'[2] = (posts # <<>> /\ posts' = <<>>)
        /\ posts = <<>> => (fret' = <<0, FALSE>> /\ posts' = <<>>)
      ]_vars

\* C4 witness: every post of an input of two or more was removed.
C4_Witness == pc = "ret" /\ fret # Idle /\ fret[2] = TRUE /\ fret[1] >= 2

----------------------------------------------------------------------------
\* serde_json::Value.  An object is a function from its keys (strings, so
\* sequences of atoms) to values.

Null == [t |-> "null", v |-> <<>>]
JStr(s) == [t |-> "str", v |-> s]
JBool(b) == [t |-> "bool", v |-> b]
JNum(n) == [t |-> "num", v |-> n]
JArr(a) == [t |-> "arr", v |-> a]
JObj(f) == [t |-> "obj", v |-> f]

\* One member of an object; members are joined with @@.
F(k, val) == <<k>> :> val
NoMembers == [k \in {} |-> Null]

\* value[key] with a string key: Null unless value is an object that has it.
GetS(val, key) ==
    IF val.t = "obj" THEN (IF key \in DOMAIN val.v THEN val.v[key] ELSE Null)
    ELSE Null

\* value["k"] for a key written in the source.
Get(val, k) == GetS(val, <<k>>)

\* value[i] with a number: Null unless value is an array that long.
At(val, i) ==
    IF val.t = "arr" THEN (IF i + 1 <= Len(val.v) THEN val.v[i + 1] ELSE Null)
    ELSE Null

is_string(val) == val.t = "str"
is_object(val) == val.t = "obj"
\* as_str().unwrap_or_default()
as_str_or_default(val) == IF val.t = "str" THEN val.v ELSE <<>>
\* as_bool().unwrap_or(false), as_bool().unwrap_or_default()
as_bool_or_default(val) == IF val.t = "bool" THEN val.v ELSE FALSE
\* as_i64().unwrap_or_default()
as_i64_or_default(val) == IF val.t = "num" THEN val.v ELSE 0
\* as_array().unwrap_or(&Vec::new())
as_array_or_empty(val) == IF val.t = "arr" THEN val.v ELSE <<>>
\* value == "text" (PartialEq<str> for Value)
EqStr(val, s) == val.t = "str" /\ val.v = s

----------------------------------------------------------------------------
\* GalleryMedia::parse and Media::parse.

\* The closure of GalleryMedia::parse: the record built for one item.
\* GalleryMedia::parse that reads the generic field whatever the MIME type.
GalleryItem_always_u(item, metadata) ==
    LET media_id == as_str_or_default(Get(item, "media_id"))
        image == Get(GetS(metadata, media_id), "s")
    IN  [url |-> format_url(as_str_or_default(Get(image, "u"))),
         width |-> as_i64_or_default(Get(image, "x")),
         height |-> as_i64_or_default(Get(image, "y")),
         caption |-> as_str_or_default(Get(item, "caption")),
         outbound_url |-> as_str_or_default(Get(item, "outbound_url"))]

GalleryItem(item, metadata) ==
    LET media_id == as_str_or_default(Get(item, "media_id"))
        image == Get(GetS(metadata, media_id), "s")
        image_type == Get(GetS(metadata, media_id), "m")
        u == IF EqStr(image_type, <<"image", "/", "gif">>)
             THEN as_str_or_default(Get(image, "gif"))
             ELSE as_str_or_default(Get(image, "u"))
    IN  [url |-> format_url(u),
         width |-> as_i64_or_default(Get(image, "x")),
         height |-> as_i64_or_default(Get(image, "y")),
         caption |-> as_str_or_default(Get(item, "caption")),
         outbound_url |-> as_str_or_default(Get(item, "outbound_url"))]

GalleryMedia_parse(items, metadata) ==
    LET a == as_array_or_empty(items)
    IN  [k \in 1..Len(a) |-> GalleryItem(a[k], metadata)]

\* A video arm that does not look at is_gif.
VideoArm_always_video(video) ==
    [post_type |-> "video",
     url_val |-> Get(video, "fallback_url"),
     alt_url_val |-> <<Get(video, "hls_url")>>,
     gallery |-> <<>>]

\* One arm of the video chain: (post_type, url_val, alt_url_val) from a
\* reddit_video object.
VideoArm(video) ==
    [post_type |-> IF as_bool_or_default(Get(video, "is_gif")) THEN "gif" ELSE "video",
     url_val |-> Get(video, "fallback_url"),
     alt_url_val |-> <<Get(video, "hls_url")>>,
     gallery |-> <<>>]

\* An arm that is no video: alt_url_val is None.
Arm(type, url_val, gallery) ==
    [post_type |-> type, url_val |-> url_val, alt_url_val |-> <<>>, gallery |-> gallery]

\* The chain with its image rule asking for the domain alone.
MediaArm_domain_only(d) ==
    LET data_preview == Get(Get(d, "preview"), "reddit_video_preview")
        secure_media == Get(Get(d, "secure_media"), "reddit_video")
        crosspost_parent_media ==
            Get(Get(At(Get(d, "crosspost_parent_list"), 0), "secure_media"), "reddit_video")
        preview == At(Get(Get(d, "preview"), "images"), 0)
        mp4 == Get(Get(preview, "variants"), "mp4")
    IN  IF is_string(Get(data_preview, "fallback_url")) THEN VideoArm(data_preview)
        ELSE IF is_string(Get(secure_media, "fallback_url")) THEN VideoArm(secure_media)
        ELSE IF is_string(Get(crosspost_parent_media, "fallback_url"))
             THEN VideoArm(crosspost_parent_media)
        ELSE IF as_str_or_default(Get(d, "post_hint")) = <<"image">>
             THEN IF is_object(mp4) THEN Arm("gif", Get(Get(mp4, "source"), "url"), <<>>)
                  ELSE IF EqStr(Get(d, "domain"), H_IMAGES)
                       THEN Arm("image", Get(d, "url"), <<>>)
                  ELSE Arm("image", Get(Get(preview, "source"), "url"), <<>>)
        ELSE IF as_bool_or_default(Get(d, "is_self"))
             THEN Arm("self", Get(d, "permalink"), <<>>)
        ELSE IF as_bool_or_default(Get(d, "is_gallery"))
             THEN Arm("gallery", Get(d, "url"),
                      GalleryMedia_parse(Get(Get(d, "gallery_data"), "items"),
                                         Get(d, "media_metadata")))
        ELSE IF EqStr(Get(d, "domain"), H_IMAGES)
             THEN Arm("image", Get(d, "url"), <<>>)
        ELSE Arm("link", Get(d, "url"), <<>>)

\* The if / else-if chain of Media::parse.
MediaArm(d) ==
    LET data_preview == Get(Get(d, "preview"), "reddit_video_preview")
        secure_media == Get(Get(d, "secure_media"), "reddit_video")
        crosspost_parent_media ==
            Get(Get(At(Get(d, "crosspost_parent_list"), 0), "secure_media"), "reddit_video")
        preview == At(Get(Get(d, "preview"), "images"), 0)
        mp4 == Get(Get(preview, "variants"), "mp4")
    IN  IF is_string(Get(data_preview, "fallback_url")) THEN VideoArm(data_preview)
        ELSE IF is_string(Get(secure_media, "fallback_url")) THEN VideoArm(secure_media)
        ELSE IF is_string(Get(crosspost_parent_media, "fallback_url"))
             THEN VideoArm(crosspost_parent_media)
        ELSE IF as_str_or_default(Get(d, "post_hint")) = <<"image">>
             THEN IF is_object(mp4) THEN Arm("gif", Get(Get(mp4, "source"), "url"), <<>>)
                  ELSE IF EqStr(Get(d, "domain"), H_IMAGES)
                       THEN Arm("image", Get(d, "url"), <<>>)
                  ELSE Arm("image", Get(Get(preview, "source"), "url"), <<>>)
        ELSE IF as_bool_or_default(Get(d, "is_self"))
             THEN Arm("self", Get(d, "permalink"), <<>>)
        ELSE IF as_bool_or_default(Get(d, "is_gallery"))
             THEN Arm("gallery", Get(d, "url"),
                      GalleryMedia_parse(Get(Get(d, "gallery_data"), "items"),
                                         Get(d, "media_metadata")))
        ELSE IF as_bool_or_default(Get(d, "is_reddit_media_domain"))
                /\ EqStr(Get(d, "domain"), H_IMAGES)
             THEN Arm("image", Get(d, "url"), <<>>)
        ELSE Arm("link", Get(d, "url"), <<>>)

\* The tuple Media::parse returns, from the arm taken, preview.images[0].source
\* and the gallery.
MediaOf(arm, source, gallery) ==
    <<arm.post_type,
          [url |-> format_url(as_str_or_default(arm.url_val)),
           alt_url |-> IF arm.alt_url_val = <<>> THEN <<>>
                       ELSE format_url(as_str_or_default(arm.alt_url_val[1])),
           width |-> as_i64_or_default(Get(source, "width")),
           height |-> as_i64_or_default(Get(source, "height")),
           poster |-> format_url(as_str_or_default(Get(source, "url")))],
          gallery>>

\* The same with the gallery the arm filled.
MediaOfArm(arm, source) == MediaOf(arm, source, arm.gallery)

\* Media::parse that fills the gallery before it picks the arm.
Media_parse_eager_gallery(d) ==
    MediaOf(MediaArm(d), Get(At(Get(Get(d, "preview"), "images"), 0), "source"),
            GalleryMedia_parse(Get(Get(d, "gallery_data"), "items"),
                               Get(d, "media_metadata")))

\* Media::parse: (post_type, Media, gallery).
Media_parse(d) ==
    MediaOfArm(MediaArm(d), Get(At(Get(Get(d, "preview"), "images"), 0), "source"))

----------------------------------------------------------------------------
\* format_num

Abs(n) == IF n < 0 THEN -n ELSE n

RECURSIVE Bits(_)
\* The binary digits of n >= 0, most significant first (none for 0).
Bits(n) == IF n = 0 THEN <<>> ELSE Append(Bits(n \div 2), n % 2)

\* An i64 in sign and magnitude, the magnitude in binary digits.
I64(n) == [neg |-> n < 0, mag |-> Bits(Abs(n))]

Zeros(k) == [i \in 1..k |-> 0]

Front(bits) == SubSeq(bits, 1, Len(bits) - 1)

Last(bits) == bits[Len(bits)]

\* Without its leading zeros.
Strip(bits) ==
    IF \E i \in 1..Len(bits) : bits[i] = 1
    THEN SubSeq(bits, Min({i \in 1..Len(bits) : bits[i] = 1}), Len(bits))
    ELSE <<>>

RECURSIVE Value(_)
\* The number a short run of binary digits stands for.
Value(bits) ==
    IF Len(bits) = 0 THEN 0
    ELSE IF Len(bits) = 1 THEN bits[1]
    ELSE Value(SubSeq(bits, 1, Len(bits) \div 2)) * 2 ^ (Len(bits) - Len(bits) \div 2)
         + Value(SubSeq(bits, Len(bits) \div 2 + 1, Len(bits)))

\* n in w binary digits.
Fixed(n, w) == Zeros(w - Len(Bits(n))) \o Bits(n)

\* num >= c || num <= -c, for a small c.
AtLeast(mag, c) == Len(mag) > 30 \/ Value(mag) >= c

\* The arithmetic on binary digits goes by groups of ten digits: the last
\* group of the digits, and the digits before it.
Low(bits) == SubSeq(bits, Max({1, Len(bits) - 9}), Len(bits))

High(bits) == SubSeq(bits, 1, Len(bits) - 10)

\* One step of the long division: the next group x of w digits joins the
\* remainder.
DivStep(q, x, w, d) == [q |-> q \o Fixed(x \div d, w), r |-> x % d]

DivGroup(p, low, d) == DivStep(p.q, p.r * 2 ^ Len(low) + Value(low), Len(low), d)

RECURSIVE DivBits(_, _)
\* Long division of binary digits by a small d: quotient digits, remainder.
DivBits(bits, d) ==
    IF bits = <<>> THEN [q |-> <<>>, r |-> 0]
    ELSE DivGroup(DivBits(High(bits), d), Low(bits), d)

\* bits + 1
Inc(bits) ==
    IF \E i \in 1..Len(bits) : bits[i] = 0
    THEN SubSeq(bits, 1, Max({i \in 1..Len(bits) : bits[i] = 0}) - 1) \o <<1>>
         \o Zeros(Len(bits) - Max({i \in 1..Len(bits) : bits[i] = 0}))
    ELSE <<1>> \o Zeros(Len(bits))

RECURSIVE MulAdd(_, _, _)
\* bits * c + a for small c and a, group by group from the last.
MulGroup(high, c, x, w) == MulAdd(high, c, x \div 2 ^ w) \o Fixed(x % 2 ^ w, w)

MulAdd(bits, c, a) ==
    IF bits = <<>> THEN Bits(a)
    ELSE MulGroup(High(bits), c, Value(Low(bits)) * c + a, Len(Low(bits)))

\* bits without its last k digits, rounded to nearest, ties to even.
RoundEven(bits, k) ==
    LET kept == SubSeq(bits, 1, Len(bits) - k)
        up == /\ k > 0
              /\ bits[Len(bits) - k + 1] = 1
              /\ \/ \E i \in (Len(bits) - k + 2)..Len(bits) : bits[i] = 1
                 \/ (kept # <<>> /\ Last(kept) = 1)
    IN  IF up THEN Inc(kept) ELSE kept

\* Binary digits of an f64 significand.
MANTISSA_DIGITS == 53

\* num as f64: the magnitude in 53 significant digits, as an integer.
AsF64(mag) ==
    IF Len(mag) <= MANTISSA_DIGITS THEN mag
    ELSE RoundEven(mag, Len(mag) - MANTISSA_DIGITS) \o Zeros(Len(mag) - MANTISSA_DIGITS)

\* The quotient x.q / 2^k of a division, rounded to nearest, ties to even.
Rounded(x, d, k) ==
    [m |-> IF 2 * x.r > d \/ (2 * x.r = d /\ Last(x.q) = 1) THEN Inc(Strip(x.q))
           ELSE Strip(x.q),
     k |-> k]

\* f / d for an integral f >= d whose quotient has whole digits: an f64 with
\* k digits after the point (a quotient of an i64 by 1000 has under 53 whole digits).
DivF64K(f, d, k) == Rounded(DivBits(f \o Zeros(k), d), d, k)

DivF64(f, d) == DivF64K(f, d, MANTISSA_DIGITS - Len(Strip(DivBits(f, d).q)))

\* 10 * bits
Times10(bits) == MulAdd(bits, 10, 0)

RECURSIVE DecimalBits(_)
\* The decimal digits of a magnitude, one atom each.
DecimalStep(x) ==
    IF Strip(x.q) = <<>> THEN <<Digits[x.r + 1]>>
    ELSE Append(DecimalBits(Strip(x.q)), Digits[x.r + 1])

DecimalBits(bits) == DecimalStep(DivBits(bits, 10))

\* i64::to_string
to_string(num) == (IF num.neg THEN <<"-">> ELSE <<>>) \o DecimalBits(num.mag)

\* {:.1} of an f64: its exact value in tenths, rounded half to even, with
\* the point before the last digit.
OneDecimal(digits) == Front(digits) \o <<".", Last(digits)>>

Tenths(x) == OneDecimal(DecimalBits(RoundEven(Times10(x.m), x.k)))

\* format!("{:.1}<unit>", num as f64 / d)
Abbreviated(num, d, unit) ==
    (IF num.neg THEN <<"-">> ELSE <<>>) \o Tenths(DivF64(AsF64(num.mag), d)) \o <<unit>>

format_num(num) ==
    <<IF AtLeast(num.mag, 1000000) THEN Abbreviated(num, 1000000, "m")
      ELSE IF AtLeast(num.mag, 1000) THEN Abbreviated(num, 1000, "k")
      ELSE to_string(num),
      to_string(num)>>

----------------------------------------------------------------------------
\* rewrite_urls.  The replacement strings hold no "$" (the model's texts have
\* no such atom), so Regex::replace_all inserts them as they are.

\* The atom at position i, or "" outside the text.
AtomAt(text, i) == IF i >= 1 /\ i <= Len(text) THEN text[i] ELSE ""

\* Atoms of one character, which regex `.` and `[^?]` match one at a time.
OneCharAtoms ==
    {":", "/", "?", ".", "\\", "_", "\"", " ", "#", "@", "<", ">", "-", "C", "x"}
    \cup {Digits[k] : k \in 1..10}

\* REDDIT_REGEX: href="(https|http|)://(www\.|old\.|np\.|amp\.|new\.|)(reddit\.com|redd\.it)/
\* The length of the match that starts at i (0: none).
RedditLinkLen(text, i) ==
    LET j == i + 2
        k == IF AtomAt(text, j) \in {"https", "http"} THEN j + 1 ELSE j
        m == k + Len(SEP)
        n == IF AtomAt(text, m) \in {"www", "old", "np", "amp", "new"}
                /\ AtomAt(text, m + 1) = "."
             THEN m + 2 ELSE m
    IN  IF /\ MatchAt(text, i, <<"href=", "\"">>)
           /\ MatchAt(text, k, SEP)
           /\ AtomAt(text, n) \in {"reddit.com", "redd.it"}
           /\ AtomAt(text, n + 1) = "/"
        THEN n + 2 - i
        ELSE 0

\* REDDIT_EMOJI_REGEX: https?://(www|).redditstatic\.com/(.*)
\* The dot after (www|) is any character.
EmojiLen(text, i) ==
    LET m == i + 1 + Len(SEP)
        p == IF AtomAt(text, m) = "www" /\ AtomAt(text, m + 1) \in OneCharAtoms
                /\ MatchAt(text, m + 2, <<"redditstatic.com", "/">>)
             THEN m + 4
             ELSE IF AtomAt(text, m) \in OneCharAtoms
                     /\ MatchAt(text, m + 1, <<"redditstatic.com", "/">>)
             THEN m + 3
             ELSE 0
    IN  IF AtomAt(text, i) \in {"https", "http"} /\ MatchAt(text, i + 1, SEP) /\ p > 0
        THEN Eol(text, p) - i + 1
        ELSE 0

\* REDDIT_PREVIEW_REGEX: https?://(external-preview|preview)\.redd\.it(.*)[^?]
\* (.*) runs to the end of the line; [^?] then takes the newline, or else the
\* last character of the line that is no "?".
PreviewLen(text, i) ==
    LET p == i + 1 + Len(SEP) + 3
        e == Eol(text, p)
        K == {k \in p..e : text[k] # "?"}
    IN  IF /\ AtomAt(text, i) \in {"https", "http"}
           /\ MatchAt(text, i + 1, SEP)
           /\ AtomAt(text, i + 4) \in {"external-preview", "preview"}
           /\ MatchAt(text, i + 5, <<".", "redd.it">>)
        THEN IF e < Len(text) THEN e + 1 - i + 1
             ELSE IF K = {} THEN 0 ELSE Max(K) - i + 1
        ELSE 0

RECURSIVE ReplaceReddit(_, _)
\* REDDIT_REGEX.replace_all(text, r#"href="/"#), from position i on.
ReplaceReddit(text, i) ==
    IF i > Len(text) THEN <<>>
    ELSE IF RedditLinkLen(text, i) > 0
         THEN <<"href=", "\"", "/">> \o ReplaceReddit(text, i + RedditLinkLen(text, i))
    ELSE <<text[i]>> \o ReplaceReddit(text, i + 1)

RECURSIVE ReplaceEmoji(_, _, _)
ReplaceEmoji(text, i, rep) ==
    IF i > Len(text) THEN <<>>
    ELSE IF EmojiLen(text, i) > 0
         THEN rep \o ReplaceEmoji(text, i + EmojiLen(text, i), rep)
    ELSE <<text[i]>> \o ReplaceEmoji(text, i + 1, rep)

RECURSIVE ReplacePreview(_, _, _)
ReplacePreview(text, i, rep) ==
    IF i > Len(text) THEN <<>>
    ELSE IF PreviewLen(text, i) > 0
         THEN rep \o ReplacePreview(text, i + PreviewLen(text, i), rep)
    ELSE <<text[i]>> \o ReplacePreview(text, i + 1, rep)

\* Regex::find(text).map(|x| x.as_str()).unwrap_or_default()
FindEmoji(text) ==
    LET I == {i \in 1..Len(text) : EmojiLen(text, i) > 0}
    IN  IF I = {} THEN <<>> ELSE SubSeq(text, Min(I), Min(I) + EmojiLen(text, Min(I)) - 1)

FindPreview(text) ==
    LET I == {i \in 1..Len(text) : PreviewLen(text, i) > 0}
    IN  IF I = {} THEN <<>> ELSE SubSeq(text, Min(I), Min(I) + PreviewLen(text, Min(I)) - 1)

RECURSIVE Replace(_, _, _)
\* str::replace(from, to)
Replace(text, from, to) ==
    IF text = <<>> THEN <<>>
    ELSE IF MatchAt(text, 1, from)
         THEN to \o Replace(SubSeq(text, Len(from) + 1, Len(text)), from, to)
    ELSE <<Head(text)>> \o Replace(Tail(text), from, to)

\* REDDIT_EMOJI_REGEX.replace_all(&text1, format_url(find or "")), then the
\* two str::replace.
RewriteEmoji(text1) ==
    Replace(Replace(ReplaceEmoji(text1, 1, format_url(FindEmoji(text1))),
                    <<"%5", "C">>, <<>>),
            <<"\\", "_">>, <<"_">>)

\* The last step: external media previews.
RewritePreviews(text1) ==
    IF FindPreview(text1) # <<>>
    THEN ReplacePreview(text1, 1, format_url(FindPreview(text1)))
    ELSE text1

rewrite_urls(input_text) == RewritePreviews(RewriteEmoji(ReplaceReddit(input_text, 1)))

----------------------------------------------------------------------------
\* The post builders.  Of a Post the model keeps the fields below; rel_time,
\* created, upvote_ratio, poll, awards, the flairs, num_duplicates and ws_url
\* are left out.

\* val(): j["data"][k].as_str().unwrap_or_default().to_string()
val(j, k) == as_str_or_default(Get(Get(j, "data"), k))

\* crate::config::DEFAULT_PUSHSHIFT_FRONTEND
DEFAULT_PUSHSHIFT_FRONTEND == <<"undelete", ".", "pullpush.io">>

\* get_setting("REDLIB_PUSHSHIFT_FRONTEND").unwrap_or_else(default)
PushshiftFrontend(e) == IF e = <<>> THEN DEFAULT_PUSHSHIFT_FRONTEND ELSE e

\* The body parse_post writes for a post a moderator removed.
RemovedNotice(frontend, permalink) ==
    <<"<div class=\"md\"><p>[removed] -- <a ", "href=", "\"", "https", ":", "/", "/">>
    \o frontend \o permalink
    \o <<"\"", ">", "view removed post", "</a></p></div>">>

HiddenScore == <<<<"\\u{2022}">>, <<"Hidden">>>>

\* Media of the thumbnail, the same in both builders.
Thumbnail(post) ==
    [url |-> format_url(val(post, "thumbnail")),
     alt_url |-> <<>>,
     width |-> as_i64_or_default(Get(Get(post, "data"), "thumbnail_width")),
     height |-> as_i64_or_default(Get(Get(post, "data"), "thumbnail_height")),
     poster |-> <<>>]

\* The fields both builders compute the same way from the post and from
\* what Media::parse returned.
PostWith(post, m, body, score) ==
    [id |-> val(post, "id"),
     title |-> val(post, "title"),
     community |-> val(post, "subreddit"),
     body |-> body,
     author |-> [name |-> val(post, "author"),
                 distinguished |-> val(post, "distinguished")],
     permalink |-> val(post, "permalink"),
     score |-> score,
     post_type |-> m[1],
     thumbnail |-> Thumbnail(post),
     media |-> m[2],
     domain |-> val(post, "domain"),
     flags |-> [nsfw |-> as_bool_or_default(Get(Get(post, "data"), "over_18")),
                stickied |-> as_bool_or_default(Get(Get(post, "data"), "stickied"))
                             \/ as_bool_or_default(Get(Get(post, "data"), "pinned"))],
     comments |-> format_num(I64(as_i64_or_default(Get(Get(post, "data"), "num_comments")))),
     gallery |-> m[3],
     nsfw |-> as_bool_or_default(Get(Get(post, "data"), "over_18"))]

\* parse_post
parse_post(post, e) ==
    LET score == as_i64_or_default(Get(Get(post, "data"), "score"))
        m == Media_parse(Get(post, "data"))
        permalink == val(post, "permalink")
        body == IF val(post, "removed_by_category") = <<"moderator">>
                THEN RemovedNotice(PushshiftFrontend(e), permalink)
                ELSE rewrite_urls(val(post, "selftext_html"))
    IN  PostWith(post, m, body, format_num(I64(score)))

\* if body.is_empty() { body = rewrite_urls(&val(post, "body_html")); }
BodyOr(body, post) == IF body = <<>> THEN rewrite_urls(val(post, "body_html")) ELSE body

\* The body of the loop of Post::fetch: the Post pushed for one entry.
FetchedPost(post) ==
    LET d == Get(post, "data")
        score == as_i64_or_default(Get(d, "score"))
        m == Media_parse(d)
        body == BodyOr(rewrite_urls(val(post, "selftext_html")), post)
    IN  PostWith(post, m, body,
                 IF as_bool_or_default(Get(d, "hide_score")) THEN HiddenScore
                 ELSE format_num(I64(score)))

Err(msg) == [ok |-> FALSE, err |-> msg, posts |-> <<>>, after |-> <<>>]
Ok(ps, after) == [ok |-> TRUE, err |-> <<>>, posts |-> ps, after |-> after]

\* Post::fetch, given what json(path, quarantine) answered.
Post_fetch(res) ==
    IF ~res.ok THEN Err(res.err)
    ELSE LET children == Get(Get(res.val, "data"), "children")
         IN  IF children.t # "arr" THEN Err(<<"No posts found">>)
             ELSE Ok([k \in 1..Len(children.v) |-> FetchedPost(children.v[k])],
                     as_str_or_default(Get(Get(res.val, "data"), "after")))

\* Post::fetch that asks again when json() failed.
Fetched_retry(answers) ==
    IF answers[1].ok THEN [asked |-> <<answers[1]>>, result |-> Post_fetch(answers[1])]
    ELSE [asked |-> answers, result |-> Post_fetch(answers[2])]

\* Post::fetch with its call of json(): answers[i] is what json() answers to
\* the i-th call; asked are the answers it got.
Fetched(answers) == [asked |-> <<answers[1]>>, result |-> Post_fetch(answers[1])]

----------------------------------------------------------------------------
\* The raw posts the builders are given.  A post is built from a record of
\* choices, one per field the builders read.

HTTPS == <<"https">> \o SEP

DashUrl(id) ==
    HTTPS \o H_VIDEOS \o <<"/", id, "/", "DASH_", "360", ".", "mp4", "?", "source=fallback">>
HlsUrl(id) == HTTPS \o H_VIDEOS \o <<"/", id, "/", "HLSPlaylist.m3u8", "?", "a=b">>
ExternalUrl == HTTPS \o <<"example.com", "/", "page">>
RedditUrl == HTTPS \o H_WWW \o <<"/", "r", "/", "rust">>
ImageUrl == HTTPS \o H_IMAGES \o <<"/", "pic.jpg">>
SourceUrl == HTTPS \o H_PREVIEW \o <<"/", "src.jpg", "?", "s=1">>
Mp4Url == HTTPS \o H_PREVIEW \o <<"/", "anim.gif", "?", "format=mp4">>
Permalink == <<"/", "r", "/", "rust", "/", "comments", "/", "abc">>

\* A member that is there only when c holds.
Opt(c, k, value) == IF c THEN F(k, value) ELSE NoMembers

\* The ways a reddit_video object may look.
CandKinds == {"absent", "nonstring", "empty", "video", "gif", "notgif", "odd"}

\* The reddit_video object of kind k; id tells the three places apart.
Video(k, id) ==
    CASE k = "nonstring" ->
            JObj(F("fallback_url", JNum(1)) @@ F("is_gif", JBool(TRUE))
                 @@ F("hls_url", JStr(HlsUrl(id))))
      [] k = "empty" ->
            JObj(F("fallback_url", JStr(<<>>)) @@ F("hls_url", JStr(HlsUrl(id))))
      [] k = "video" -> JObj(F("fallback_url", JStr(DashUrl(id))))
      [] k = "gif" ->
            JObj(F("fallback_url", JStr(DashUrl(id))) @@ F("is_gif", JBool(TRUE))
                 @@ F("hls_url", JStr(HlsUrl(id))))
      [] k = "notgif" ->
            JObj(F("fallback_url", JStr(DashUrl(id))) @@ F("is_gif", JBool(FALSE))
                 @@ F("hls_url", JStr(HlsUrl(id))))
      [] k = "odd" ->
            JObj(F("fallback_url", JStr(ExternalUrl \o <<"/", id>>))
                 @@ F("is_gif", JStr(<<"true">>)) @@ F("hls_url", JNum(0)))
      [] OTHER -> Null

\* media_metadata: m1 is a GIF, m2 a still image, m4 a GIF without s.gif;
\* m3 has no entry.
MediaMetadata ==
    JObj(F("m1", JObj(F("m", JStr(<<"image", "/", "gif">>))
                      @@ F("s", JObj(F("gif", JStr(HTTPS \o H_IMAGES \o <<"/", "one.gif">>))
                                     @@ F("u", JStr(HTTPS \o H_PREVIEW \o <<"/", "one.jpg">>))
                                     @@ F("x", JNum(10)) @@ F("y", JNum(20))))))
         @@ F("m2", JObj(F("m", JStr(<<"image", "/", "jpg">>))
                         @@ F("s", JObj(F("gif", JStr(HTTPS \o H_IMAGES \o <<"/", "two.gif">>))
                                        @@ F("u", JStr(HTTPS \o H_PREVIEW \o <<"/", "two.jpg">>))
                                        @@ F("x", JNum(30)) @@ F("y", JNum(40))))))
         @@ F("m4", JObj(F("m", JStr(<<"image", "/", "gif">>))
                         @@ F("s", JObj(F("u", JStr(HTTPS \o H_PREVIEW \o <<"/", "four.jpg">>))
                                        @@ F("x", JNum(50)) @@ F("y", JNum(60)))))))

MediaIds == {"m1", "m2", "m3", "m4", "none"}
OutboundKinds == {"none", "reddit"}
ItemChoices == [mid : MediaIds, ob : OutboundKinds]

\* One entry of gallery_data.items.
GalleryEntry(c) ==
    JObj(Opt(c.mid # "none", "media_id", JStr(<<c.mid>>))
         @@ F("caption", JStr(<<"cap", c.mid>>))
         @@ Opt(c.ob # "none", "outbound_url",
                JStr(RedditUrl)))

Text(k) ==
    CASE k = "link" -> <<"<a ", "href=", "\"">> \o RedditUrl \o <<"\"", ">", "x", "</a>">>
      [] k = "esc" -> <<"%5", "C">>
      [] k = "text" -> <<"<p>", "a", "\\", "_", "b", "</p>">>
      [] OTHER -> <<>>

ScoreOf(k) ==
    CASE k = "5" -> 5
      [] k = "1234" -> 1234
      [] k = "-1500" -> -1500
      [] OTHER -> 0

\* The post a record of choices stands for.
MkPost(c) ==
    LET images ==
            JArr(<<JObj(Opt(c.source, "source",
                            JObj(F("url", JStr(SourceUrl))
                                 @@ F("width", JNum(640)) @@ F("height", JNum(480))))
                        @@ Opt(c.mp4 # "absent", "variants",
                               JObj(F("mp4", IF c.mp4 = "object"
                                             THEN JObj(F("source", JObj(F("url", JStr(Mp4Url)))))
                                             ELSE JStr(Mp4Url)))))>>)
        d == Opt(c.pv # "absent" \/ c.source \/ c.mp4 # "absent", "preview",
                 JObj(Opt(c.pv # "absent", "reddit_video_preview", Video(c.pv, "p"))
                      @@ Opt(c.source \/ c.mp4 # "absent", "images", images)))
             @@ Opt(c.sm # "absent", "secure_media",
                    JObj(F("reddit_video", Video(c.sm, "s"))))
             @@ Opt(c.cp # "absent", "crosspost_parent_list",
                    JArr(<<JObj(F("secure_media",
                                  JObj(F("reddit_video", Video(c.cp, "c")))))>>))
             @@ Opt(c.hint # "none", "post_hint", JStr(<<c.hint>>))
             @@ F("domain", JStr(IF c.cdn THEN H_IMAGES ELSE <<"example.com">>))
             @@ F("url", JStr(IF c.cdn THEN ImageUrl ELSE ExternalUrl))
             @@ F("permalink", JStr(Permalink))
             @@ F("is_self", JBool(c.is_self))
             @@ F("is_gallery", JBool(c.is_gallery))
             @@ F("is_reddit_media_domain", JBool(c.rmd))
             @@ Opt(c.gshape # "noitems", "gallery_data",
                    JObj(F("items", JArr([k \in 1..Len(c.items) |-> GalleryEntry(c.items[k])]))))
             @@ Opt(c.gshape # "nometa", "media_metadata", MediaMetadata)
             @@ Opt(c.hide # "none", "hide_score",
                    IF c.hide = "str" THEN JStr(<<"true">>) ELSE JBool(c.hide = "true"))
             @@ Opt(c.score # "none", "score", JNum(ScoreOf(c.score)))
             @@ Opt(c.removed # "none", "removed_by_category", JStr(<<c.removed>>))
             @@ Opt(c.selftext # "none", "selftext_html", JStr(Text(c.selftext)))
             @@ Opt(c.bodyhtml # "none", "body_html", JStr(Text(c.bodyhtml)))
             @@ F("over_18", JBool(c.over18))
             @@ F("subreddit", JStr(<<"rust">>))
             @@ F("author", JStr(<<"bob">>))
             @@ F("id", JStr(<<"abc">>))
             @@ F("title", JStr(<<"a title">>))
             @@ F("thumbnail", JStr(<<"self">>))
        mismatched ==
            F("preview", JStr(<<"x">>)) @@ F("secure_media", JArr(<<>>))
            @@ F("crosspost_parent_list", JObj(F("secure_media", JNum(3))))
            @@ F("post_hint", JNum(7)) @@ F("is_self", JStr(<<"true">>))
            @@ F("is_gallery", JBool(c.is_gallery)) @@ F("domain", Null)
            @@ F("url", JNum(5)) @@ F("gallery_data", JObj(F("items", JStr(<<"m1">>))))
            @@ F("media_metadata", JArr(<<JStr(<<"m1">>)>>))
            @@ F("hide_score", JNum(1)) @@ F("score", JStr(<<"5">>))
            @@ F("selftext_html", JBool(TRUE)) @@ F("over_18", JStr(<<"yes">>))
    IN  CASE c.shape = "ok" -> JObj(F("kind", JStr(<<"t3">>)) @@ F("data", JObj(d)))
          [] c.shape = "mismatch" -> JObj(F("kind", JNum(3)) @@ F("data", JObj(mismatched)))
          [] c.shape = "empty" -> JObj(F("data", JObj(NoMembers)))
          [] c.shape = "nodata" -> JObj(NoMembers)
          [] OTHER -> Null

\* A link post with nothing special, from which the families below vary.
Plain ==
    [pv |-> "absent", sm |-> "absent", cp |-> "absent",
     hint |-> "none", mp4 |-> "absent", cdn |-> FALSE, source |-> FALSE,
     is_self |-> FALSE, is_gallery |-> FALSE, rmd |-> FALSE,
     items |-> <<>>, gshape |-> "ok",
     hide |-> "none", score |-> "5", removed |-> "none",
     selftext |-> "none", bodyhtml |-> "none", over18 |-> FALSE, shape |-> "ok"]

TwoItems == <<[mid |-> "m1", ob |-> "reddit"], [mid |-> "m2", ob |-> "none"]>>

\* The three video places in every combination, with the flags of the later
\* rules.
VideoChoices ==
    {[Plain EXCEPT !.pv = a, !.sm = b, !.cp = c, !.hint = IF g THEN "image" ELSE "none",
                   !.is_self = g, !.is_gallery = g, !.items = TwoItems, !.over18 = o,
                   !.source = g] :
        a \in CandKinds, b \in CandKinds, c \in {"absent", "empty", "video", "gif"},
        g \in BOOLEAN, o \in BOOLEAN}

\* No video: the flags of the later rules in every combination.
FlagChoices ==
    {[Plain EXCEPT !.pv = a, !.hint = h[1], !.mp4 = h[2], !.cdn = f[1], !.source = f[2],
                   !.is_self = f[3], !.is_gallery = f[4], !.rmd = f[5],
                   !.items = TwoItems] :
        a \in {"absent", "nonstring"},
        h \in {"none", "image", "link"} \X {"absent", "object", "string"},
        f \in BOOLEAN \X BOOLEAN \X BOOLEAN \X BOOLEAN \X BOOLEAN}

\* Galleries: every list of up to MaxItems entries, and a gallery without
\* its items or without its metadata.
GalleryChoices ==
    {[Plain EXCEPT !.is_gallery = TRUE, !.items = i] :
        i \in UNION {[1..n -> ItemChoices] : n \in 0..MaxItems}}
    \cup {[Plain EXCEPT !.is_gallery = TRUE, !.items = TwoItems, !.gshape = g] :
            g \in {"noitems", "nometa"}}

\* Posts that are not what the upstream documents: members of the wrong
\* type, no members, no data, not an object.
MalformedChoices ==
    {[Plain EXCEPT !.shape = s, !.is_gallery = g] :
        s \in {"mismatch", "empty", "nodata", "null"}, g \in BOOLEAN}

\* The fields the builders format.
BuilderChoices ==
    {[Plain EXCEPT !.hide = h, !.score = s, !.removed = r, !.selftext = t,
                   !.bodyhtml = b, !.is_self = TRUE] :
        h \in {"none", "true", "false", "str"}, s \in {"none", "5", "1234", "-1500"},
        r \in {"none", "moderator", "deleted"},
        t \in {"none", "empty", "link", "esc", "text"}, b \in {"none", "link", "text"}}

PostChoices ==
    VideoChoices \cup FlagChoices \cup GalleryChoices \cup BuilderChoices
    \cup MalformedChoices

\* REDLIB_PUSHSHIFT_FRONTEND: unset, or the host of a mirror.
Settings == {<<>>, <<"mirror.example">>}

\* What json(path, quarantine) may answer to Post::fetch about a post.
ReplyKinds == {"err", "nochildren", "badchildren", "listing", "last", "none"}

\* An entry of a listing that is no post at all.
Junk == JStr(<<"junk">>)

Reply(k, post) ==
    CASE k = "err" -> [ok |-> FALSE, err |-> <<"Page not found">>, val |-> Null]
      [] k = "nochildren" ->
            [ok |-> TRUE, err |-> <<>>, val |-> JObj(F("data", JObj(NoMembers)))]
      [] k = "listing" ->
            [ok |-> TRUE, err |-> <<>>,
             val |-> JObj(F("data", JObj(F("children", JArr(<<post>>))
                                         @@ F("after", JStr(<<"t3_abc">>)))))]
      [] k = "badchildren" ->
            [ok |-> TRUE, err |-> <<>>,
             val |-> JObj(F("data", JObj(F("children", JObj(F("0", post)))
                                         @@ F("after", JStr(<<"t3_abc">>)))))]
      [] k = "last" ->
            [ok |-> TRUE, err |-> <<>>,
             val |-> JObj(F("data", JObj(F("children", JArr(<<Junk, post>>)))))]
      [] OTHER ->
            [ok |-> TRUE, err |-> <<>>,
             val |-> JObj(F("data", JObj(F("children", JArr(<<>>))
                                         @@ F("after", JNum(25)))))]

\* The setting is read by parse_post only, and only for the body: it varies
\* with the posts of BuilderChoices.
InitPost ==
    /\ pc = "call"
    /\ \E c \in PostChoices :
          /\ raw = MkPost(c)
          /\ env \in IF c \in BuilderChoices THEN Settings ELSE {<<>>}
    /\ resp = Idle
    /\ mret = Idle
    /\ built = Idle
    /\ url = Idle
    /\ out = Idle
    /\ posts = Idle
    /\ filters = Idle
    /\ fret = Idle
    /\ PureIdle

\* Media::parse(&post["data"])
MediaParse ==
    /\ pc = "call"
    /\ mret' = Media_parse(Get(raw, "data"))
    /\ pc' = "resolved"
    /\ UNCHANGED <<url, out, posts, filters, fret, raw, env, resp, built>>
    /\ UNCHANGED pure

\* parse_post(&post)
ParsePost ==
    /\ pc = "call"
    /\ built' = parse_post(raw, env)
    /\ pc' = "parsed"
    /\ UNCHANGED <<url, out, posts, filters, fret, raw, env, resp, mret>>
    /\ UNCHANGED pure

\* What json() would answer to a second call, were there one.
SecondReplyKinds == {"err", "listing"}

\* Post::fetch(path, quarantine) when the upstream answers with replies
\* about the post; resp keeps the answers Post::fetch asked for.
PostFetch ==
    /\ pc = "call"
    /\ \E k \in ReplyKinds, k2 \in SecondReplyKinds :
          /\ resp' = Fetched(<<Reply(k, raw), Reply(k2, raw)>>).asked
          /\ built' = Fetched(<<Reply(k, raw), Reply(k2, raw)>>).result
    /\ pc' = "fetched"
    /\ UNCHANGED <<url, out, posts, filters, fret, raw, env, mret>>
    /\ UNCHANGED pure

NextPost == MediaParse \/ ParsePost \/ PostFetch

SpecPost == InitPost /\ [][NextPost]_vars

----------------------------------------------------------------------------
\* What the claims about Media::parse and the builders speak of.

PostData == Get(raw, "data")

\* The three places of a video, in the order Media::parse looks at them.
Candidates ==
    <<Get(Get(PostData, "preview"), "reddit_video_preview"),
      Get(Get(PostData, "secure_media"), "reddit_video"),
      Get(Get(At(Get(PostData, "crosspost_parent_list"), 0), "secure_media"),
          "reddit_video")>>

IsTrue(j) == j.t = "bool" /\ j.v
FallbackOf(v) == as_str_or_default(Get(v, "fallback_url"))
HasFallback(v) == Get(v, "fallback_url").t = "str"
NonEmptyFallback(v) == HasFallback(v) /\ FallbackOf(v) # <<>>

\* The first place that has a string as its fallback URL, 0 when none has.
FirstWithFallback ==
    IF \E i \in 1..3 : HasFallback(Candidates[i])
    THEN CHOOSE i \in 1..3 :
            /\ HasFallback(Candidates[i])
            /\ \A j \in 1..(i - 1) : ~HasFallback(Candidates[j])
    ELSE 0

\* The first place that has a non-empty fallback URL, 0 when none has.
FirstWithNonEmptyFallback ==
    IF \E i \in 1..3 : NonEmptyFallback(Candidates[i])
    THEN CHOOSE i \in 1..3 :
            /\ NonEmptyFallback(Candidates[i])
            /\ \A j \in 1..(i - 1) : ~NonEmptyFallback(Candidates[j])
    ELSE 0

\* Media::parse answered what the place v makes it answer.
WinsAs(v) ==
    /\ mret[1] = (IF IsTrue(Get(v, "is_gif")) THEN "gif" ELSE "video")
    /\ mret[2].url = format_url(FallbackOf(v))
    /\ mret[2].alt_url = format_url(as_str_or_default(Get(v, "hls_url")))

\* The entry of data.children a fetched Post was built from.
ChildAt(k) == Get(Get(resp[1].val, "data"), "children").v[k]

\* The posts a builder has built of the post at hand: the one of parse_post,
\* those of Post::fetch whose entry of data.children is that post.
BuiltPosts ==
    IF pc = "parsed" THEN {built}
    ELSE IF pc = "fetched" /\ built.ok
         THEN {built.posts[k] : k \in {j \in 1..Len(built.posts) :
                                            ChildAt(j).t = raw.t /\ ChildAt(j) = raw}}
    ELSE {}

\* An adult post whose only video is a DASH file under secure_media, not
\* flagged as a gif.
SecureMediaVideoOnly ==
    /\ IsTrue(Get(PostData, "over_18"))
    /\ ~HasFallback(Candidates[1])
    /\ REGEX_URL_VIDEOS(FallbackOf(Candidates[2])).ok
    /\ ~IsTrue(Get(Candidates[2], "is_gif"))

EndToEnd ==
    SecureMediaVideoOnly =>
        \A p \in BuiltPosts :
            /\ p.post_type = "video"
            /\ StartsWith(p.media.url, <<"/", "vid", "/">>)
            /\ p.flags.nsfw

\* C5 as stated: of the three places of a video, the first whose fallback
\* URL is non-empty wins (an absent or empty one is skipped); post_type is
\* "gif" when its is_gif is true and "video" otherwise, media.url is
\* format_url of its fallback URL and media.alt_url format_url of its hls_url;
\* and an adult post with a video only under secure_media is built as a
\* "video" with a url under /vid/ and nsfw set.
C5_Original ==
    /\ (pc = "resolved" /\ FirstWithNonEmptyFallback # 0)
            => WinsAs(Candidates[FirstWithNonEmptyFallback])
    /\ EndToEnd

\* C5 amended: the first place whose fallback URL is a JSON string wins,
\* the empty string included; only an absent or non-string fallback URL is
\* skipped.  The rest is as stated.
C5_VideoPriority ==
    /\ (pc = "resolved" /\ FirstWithFallback # 0) => WinsAs(Candidates[FirstWithFallback])
    /\ EndToEnd

\* The preview has no usable fallback URL, secure_media holds a gif and the
\* crosspost parent a video: secure_media won.
C5_Witness ==
    /\ pc = "resolved"
    /\ ~HasFallback(Candidates[1])
    /\ IsTrue(Get(Candidates[2], "is_gif"))
    /\ NonEmptyFallback(Candidates[2])
    /\ NonEmptyFallback(Candidates[3])
    /\ mret[1] = "gif"
    /\ mret[2].url = <<"/", "vid", "/", "s", "/", "360", ".", "mp4">>
    /\ mret[2].alt_url # <<>>

PostTypes == {"image", "gif", "video", "gallery", "self", "link"}

\* C6: whatever the JSON, the post_type Media::parse returns, and the one
\* every Post built by Post::fetch or parse_post stores, is one of image,
\* gif, video, gallery, self, link, and the gallery is non-empty only when
\* the post_type is "gallery".
C6_PostTypeEnum ==
    /\ pc = "resolved" =>
            /\ mret[1] \in PostTypes
            /\ (mret[3] # <<>> => mret[1] = "gallery")
    /\ \A p \in BuiltPosts :
            /\ p.post_type \in PostTypes
            /\ (p.gallery # <<>> => p.post_type = "gallery")

\* A post flagged as a gallery, with gallery items, that a video rule
\* took: its gallery is empty.
C6_Witness ==
    /\ pc = "resolved"
    /\ IsTrue(Get(PostData, "is_gallery"))
    /\ as_array_or_empty(Get(Get(PostData, "gallery_data"), "items")) # <<>>
    /\ mret[1] = "video"
    /\ mret[3] = <<>>

GalleryEntries == as_array_or_empty(Get(Get(PostData, "gallery_data"), "items"))

\* A URL whose host is one of the domains format_url proxies.
OnProxiedDomain(u) == UrlParse(u).ok /\ UrlParse(u).domain \in ProxiedDomains

\* C7 as stated: every URL Media::parse stores, Media.url, Media.alt_url,
\* Media.poster and each gallery item's url and outbound_url, is what
\* format_url answers for the raw value, so none is a raw URL of a proxied
\* domain.
C7_StoredUrlsFormatted ==
    pc = "resolved" =>
        /\ \A u \in {mret[2].url, mret[2].alt_url, mret[2].poster} : ~OnProxiedDomain(u)
        /\ Len(mret[3]) <= Len(GalleryEntries)
        /\ \A k \in 1..Len(mret[3]) :
                /\ ~OnProxiedDomain(mret[3][k].url)
                /\ ~OnProxiedDomain(mret[3][k].outbound_url)
                /\ mret[3][k].outbound_url
                    = format_url(as_str_or_default(Get(GalleryEntries[k], "outbound_url")))

GifType == <<"image", "/", "gif">>

\* The metadata entry of the k-th gallery entry.
MetadataOf(k) ==
    GetS(Get(PostData, "media_metadata"),
         as_str_or_default(Get(GalleryEntries[k], "media_id")))

\* C8: when the gallery rule is reached, the gallery has one item per entry
\* of gallery_data.items, in their order; an item's url comes from s.gif
\* if and only if the MIME type m of its metadata entry is "image/gif", from
\* s.u otherwise; an entry without metadata gives an item with an empty
\* url and zero width and height.
C8_GalleryItems ==
    (pc = "resolved" /\ mret[1] = "gallery") =>
        /\ Len(mret[3]) = Len(GalleryEntries)
        /\ \A k \in 1..Len(GalleryEntries) :
            LET s == Get(MetadataOf(k), "s")
                m == Get(MetadataOf(k), "m")
                field == IF m.t = "str" /\ m.v = GifType THEN "gif" ELSE "u"
            IN  /\ mret[3][k].caption = as_str_or_default(Get(GalleryEntries[k], "caption"))
                /\ mret[3][k].url = format_url(as_str_or_default(Get(s, field)))
                /\ MetadataOf(k).t = "null" =>
                        /\ mret[3][k].url = <<>>
                        /\ mret[3][k].width = 0
                        /\ mret[3][k].height = 0

\* A gallery of a GIF and an entry without metadata: the GIF's url is the
\* one of s.gif, the other item is there and empty.
C8_Witness ==
    /\ pc = "resolved"
    /\ mret[1] = "gallery"
    /\ Len(mret[3]) = 2
    /\ mret[3][1].url = <<"/", "img", "/", "one.gif">>
    /\ mret[3][1].width = 10
    /\ MetadataOf(2).t = "null"
    /\ mret[3][2].url = <<>>

\* C9 as stated: Post::fetch and parse_post both set the score to the
\* hidden pair when hide_score is true and to format_num(score) otherwise.
C9_HiddenScore ==
    \A p \in BuiltPosts :
        p.score = IF IsTrue(Get(PostData, "hide_score")) THEN HiddenScore
                  ELSE format_num(I64(as_i64_or_default(Get(PostData, "score"))))

\* C10 as stated: Post::fetch and parse_post both set the body to the
\* notice with the link to the mirror when removed_by_category is
\* "moderator", else to rewrite_urls of selftext_html when that is
\* non-empty, else to rewrite_urls of body_html.
C10_Body ==
    \A p \in BuiltPosts :
        p.body = IF val(raw, "removed_by_category") = <<"moderator">>
                 THEN RemovedNotice(PushshiftFrontend(env), val(raw, "permalink"))
                 ELSE IF val(raw, "selftext_html") # <<>>
                      THEN rewrite_urls(val(raw, "selftext_html"))
                      ELSE rewrite_urls(val(raw, "body_html"))


\* The listing Post::fetch got and its entries.
Listing == Get(resp[1].val, "data")
Children == Get(Listing, "children")

\* C11: Post::fetch calls json() once and never again; it returns an error
\* and no posts when the call fails or data.children is no array; otherwise
\* one Post per entry of data.children in their order, whatever the entry,
\* and data.after as the cursor, empty when absent or no string.
C11_Fetch ==
    pc = "fetched" =>
        /\ Len(resp) = 1
        /\ (~resp[1].ok \/ Children.t # "arr") =>
                /\ ~built.ok
                /\ built.posts = <<>>
                /\ (~resp[1].ok => built.err = resp[1].err)
        /\ (resp[1].ok /\ Children.t = "arr") =>
                /\ built.ok
                /\ Len(built.posts) = Len(Children.v)
                /\ \A k \in 1..Len(Children.v) :
                        /\ built.posts[k].id = val(Children.v[k], "id")
                        /\ built.posts[k].title = val(Children.v[k], "title")
                /\ built.after = (IF Get(Listing, "after").t = "str"
                                  THEN Get(Listing, "after").v ELSE <<>>)

\* A listing of an entry that is no post and a post, without a cursor: two
\* Posts in that order, and the empty cursor.
C11_Witness ==
    /\ pc = "fetched"
    /\ Len(resp) = 1
    /\ resp[1].ok
    /\ Children.t = "arr"
    /\ Len(Children.v) = 2
    /\ built.ok
    /\ Len(built.posts) = 2
    /\ built.posts[1].id = <<>>
    /\ built.posts[2].id = <<"abc">>
    /\ built.after = <<>>


----------------------------------------------------------------------------
\* rewrite_urls on body texts, and on what it returned.

\* The pieces a body text is put together from: an anchor to the upstream
\* with an escaped underscore in it, a preview URL, a static-asset URL, the
\* escapes and their parts, prose.
Pieces ==
    {<<"<a ", "href=", "\"">> \o RedditUrl \o <<"\\", "_", "y", "\"", ">">>,
     HTTPS \o H_PREVIEW \o <<"/", "img.png", "?", "width=1", " ">>,
     HTTPS \o H_STATIC_MEDIA \o <<"/", "a.gif">>,
     <<"%5", "C">>,
     <<"%5">>,
     <<"C">>,
     <<"\\", "_">>,
     <<"\\">>,
     <<"printf">>,
     <<"\n">>}

RECURSIVE Concat(_)
Concat(ps) == IF ps = <<>> THEN <<>> ELSE Head(ps) \o Concat(Tail(ps))

BodyTexts == {Concat(ps) : ps \in UNION {[1..n -> Pieces] : n \in 0..MaxPieces}}

InitText ==
    /\ pc = "call"
    /\ text_in \in BodyTexts
    /\ text_out = <<>>
    /\ num_in = Idle /\ nret = Idle
    /\ created = Idle /\ now = Idle /\ tret = Idle
    /\ items_in = Idle /\ awards = Idle
    /\ url = Idle /\ out = Idle
    /\ posts = Idle /\ filters = Idle /\ fret = Idle
    /\ raw = Idle /\ env = Idle /\ resp = Idle /\ mret = Idle /\ built = Idle

\* rewrite_urls(&text), the text being the body or what the call before
\* returned.
RewriteUrls ==
    /\ Len(text_out) < MaxPasses
    /\ text_out' = Append(text_out,
                          rewrite_urls(IF text_out = <<>> THEN text_in
                                       ELSE text_out[Len(text_out)]))
    /\ pc' = "ret"
    /\ UNCHANGED <<text_in, num_in, nret, created, now, tret, items_in, awards>>
    /\ UNCHANGED <<url, out, posts, filters, fret, raw, env, resp, mret, built>>

NextText == RewriteUrls

SpecText == InitText /\ [][NextText]_vars

\* C12 as stated: rewrite_urls(rewrite_urls(x)) = rewrite_urls(x) for every
\* body text x.
C12_Idempotent == Len(text_out) >= 2 => text_out[2] = text_out[1]

\* A place of the text where one of the three patterns of rewrite_urls
\* matches: an anchor to the upstream, a static-asset URL, a preview URL.
HasLink(text) ==
    \E i \in 1..Len(text) :
        \/ RedditLinkLen(text, i) > 0
        \/ EmojiLen(text, i) > 0
        \/ PreviewLen(text, i) > 0

\* C13 as stated: a body without an upstream link, a static-asset URL or a
\* preview URL is returned unchanged, whatever backslashes, "%5C" or "\_"
\* it holds.
C13_ProseUnchanged ==
    (Len(text_out) >= 1 /\ ~HasLink(text_in)) => text_out[1] = text_in


----------------------------------------------------------------------------
\* format_url: the values it drops, what it passes through, the table.

\* C14: format_url returns the empty string for the empty string and for
\* "self", "default", "nsfw" and "spoiler", and, given that result, returns
\* the empty string again.
C14_Sentinels ==
    (pc = "ret" /\ url \in {<<>>, <<"self">>, <<"default">>, <<"nsfw">>, <<"spoiler">>})
        => (out = <<>> /\ format_url(out) = <<>>)

\* format_url was given "spoiler" and returned the empty string.
C14_Witness == pc = "ret" /\ url = <<"spoiler">> /\ out = <<>>

\* C15: for an argument that is none of the dropped values and does not
\* parse as a URL, and for a URL whose domain is not in the table,
\* format_url returns the argument as it is.
C15_Passthrough ==
    (/\ pc = "ret"
     /\ url \notin {<<>>, <<"self">>, <<"default">>, <<"nsfw">>, <<"spoiler">>}
     /\ (~UrlParse(url).ok \/ UrlParse(url).domain \notin ProxiedDomains))
        => out = url

\* A relative path, which is no URL, came back as it was.
C15_Witness ==
    /\ pc = "ret"
    /\ url = <<"/", "r", "/", "foo">>
    /\ ~UrlParse(url).ok
    /\ out = url


\* The domains of the table whose pattern has one capture, the path.
PathDomains ==
    {H_WWW, H_OLD, H_NP, H_PLAIN, H_IMAGES, H_THUMBS_A, H_THUMBS_B, H_PREVIEW,
     H_EXTERNAL_PREVIEW, H_STATIC_MEDIA}

\* The local prefix the table gives a domain.
PathPrefix(h) ==
    CASE h = H_IMAGES -> <<"/", "img", "/">>
      [] h = H_THUMBS_A -> <<"/", "thumb", "/", "a", "/">>
      [] h = H_THUMBS_B -> <<"/", "thumb", "/", "b", "/">>
      [] h = H_PREVIEW -> <<"/", "preview", "/", "pre", "/">>
      [] h = H_EXTERNAL_PREVIEW -> <<"/", "preview", "/", "external-pre", "/">>
      [] h = H_STATIC_MEDIA -> <<"/", "static", "/">>
      [] OTHER -> <<"/">>

\* scheme://host/ for a host of the table.
Heads(h) == {sch \o SEP \o h \o <<"/">> : sch \in {<<"https">>, <<"http">>}}

\* The argument after its head.
PathAfter(head) == SubSeq(url, Len(head) + 1, Len(url))

OneLine(s) == \A k \in 1..Len(s) : s[k] # "\n"

\* What may follow the number of a DASH file for the pattern to match.
DashSuffixes == {<<>>, <<".", "mp4">>, <<"?", "source=fallback">>}

\* At j of the path p stands /DASH_<number> with 2 to 4 digits and, right
\* after it, ".mp4", "?source=fallback" or the end of the URL.
DashFile(p, j) ==
    /\ j + 2 <= Len(p)
    /\ p[j] = "/" /\ p[j + 1] = "DASH_"
    /\ DigitLen(p[j + 2]) \in 2..4
    /\ \/ j + 2 = Len(p)
       \/ MatchAt(p, j + 3, <<".", "mp4">>)
       \/ MatchAt(p, j + 3, <<"?", "source=fallback">>)

\* The suffix that stands after the number at j.
DashSuffix(p, j) ==
    IF MatchAt(p, j + 3, <<".", "mp4">>) THEN <<".", "mp4">>
    ELSE IF MatchAt(p, j + 3, <<"?", "source=fallback">>) THEN <<"?", "source=fallback">>
    ELSE <<>>

\* At j of the path p stands /HLSPlaylist.m3u8, after an id.
HlsFile(p, j) == j > 1 /\ j + 1 <= Len(p) /\ p[j] = "/" /\ p[j + 1] = "HLSPlaylist.m3u8"

\* The last place of the path where At_ holds, 0 when there is none.
LastPlace(p, At_(_, _)) ==
    IF \E j \in 1..Len(p) : At_(p, j) THEN Max({j \in 1..Len(p) : At_(p, j)}) ELSE 0

\* The rows of the table but the DASH one: path domains, emoji, HLS.
TableRows ==
    /\ \A h \in PathDomains : \A head \in Heads(h) :
            StartsWith(url, head) => out = PathPrefix(h) \o PathAfter(head)
    /\ \A head \in Heads(H_EMOJI) :
            (StartsWith(url, head) /\ \E k \in 1..Len(PathAfter(head)) : PathAfter(head)[k] = "/")
                => out = <<"/", "emoji", "/">> \o PathAfter(head)
    /\ \A head \in Heads(H_VIDEOS) :
            LET p == PathAfter(head)
                j == LastPlace(p, HlsFile)
            IN  (StartsWith(url, head) /\ LastPlace(p, DashFile) = 0 /\ j # 0)
                    => out = <<"/", "hls", "/">> \o SubSeq(p, 1, j - 1) \o <<"/">>
                             \o SubSeq(p, j + 1, Len(p))

\* C16 as stated: each proxied domain maps to its prefix and the captured
\* path; for v.redd.it the DASH_<number> pattern comes first and gives
\* /vid/<id>/<resolution>, without the DASH_ and without the
\* ?source=fallback query; only when it does not match, the HLS pattern
\* gives /hls/<id>/HLSPlaylist.m3u8<rest>.
C16_Original ==
    (pc = "ret" /\ OneLine(url)) =>
        /\ TableRows
        /\ \A head \in Heads(H_VIDEOS) :
            LET p == PathAfter(head)
                j == LastPlace(p, DashFile)
            IN  (StartsWith(url, head) /\ j # 0)
                    => out = <<"/", "vid", "/">> \o SubSeq(p, 1, j - 1) \o <<"/", p[j + 2]>>
                             \o (IF DashSuffix(p, j) = <<".", "mp4">> THEN <<".", "mp4">>
                                 ELSE <<>>)

\* C16 amended: as stated, but the DASH row gives /vid/<id>/<number> and
\* then what stands right after the number, ".mp4" or "?source=fallback" or
\* nothing; only what comes after that is dropped.
C16_Table ==
    (pc = "ret" /\ OneLine(url)) =>
        /\ TableRows
        /\ \A head \in Heads(H_VIDEOS) :
            LET p == PathAfter(head)
                j == LastPlace(p, DashFile)
            IN  (StartsWith(url, head) /\ j # 0)
                    => out = <<"/", "vid", "/">> \o SubSeq(p, 1, j - 1) \o <<"/", p[j + 2]>>
                             \o DashSuffix(p, j)

\* A DASH URL whose number is followed by ?source=fallback: the query is
\* part of what format_url returns.
C16_Witness ==
    /\ pc = "ret"
    /\ url = HTTPS \o H_VIDEOS \o <<"/", "foo", "/", "DASH_", "360", "?", "source=fallback">>
    /\ out = <<"/", "vid", "/", "foo", "/", "360", "?", "source=fallback">>

----------------------------------------------------------------------------
\* format_num on its own

\* The magnitude hi * 2^24 + lo.
Wide(hi, lo) == Bits(hi) \o Fixed(lo, 24)

\* Counts around 1000, the counts of the tests, counts around a million.
SmallNums ==
    (940..1060) \cup {0, 5, 567, 1234, 1250, 1999, 99949, 99950, 999949, 999950, 999999,
                      1000000, 1000001, 1049999, 1050000, 1250000, 1999999, 123456789}

\* Counts of more than 31 binary digits: 123456789012, 9007199254650001,
\* 2^53, 2^53 + 1, 9007199254749999, 2^63 - 1 (i64::MAX).
WideMags ==
    {Wide(7358, 10033684), Wide(536870911, 16686225), Wide(536870912, 0),
     Wide(536870912, 1), Wide(536870912, 9007), [i \in 1..63 |-> 1]}

\* The i64 values format_num is given; the last one is i64::MIN.
NumInputs ==
    {I64(n) : n \in SmallNums} \cup {I64(-n) : n \in SmallNums}
    \cup {[neg |-> s, mag |-> m] : s \in BOOLEAN, m \in WideMags}
    \cup {[neg |-> TRUE, mag |-> <<1>> \o Zeros(63)]}

InitNum ==
    /\ pc = "call"
    /\ num_in \in NumInputs
    /\ nret = Idle
    /\ text_in = Idle /\ text_out = Idle
    /\ created = Idle /\ now = Idle /\ tret = Idle
    /\ items_in = Idle /\ awards = Idle
    /\ url = Idle /\ out = Idle
    /\ posts = Idle /\ filters = Idle /\ fret = Idle
    /\ raw = Idle /\ env = Idle /\ resp = Idle /\ mret = Idle /\ built = Idle

\* format_num(num)
FormatNum ==
    /\ pc = "call"
    /\ nret' = format_num(num_in)
    /\ pc' = "ret"
    /\ UNCHANGED <<text_in, text_out, num_in, created, now, tret, items_in, awards>>
    /\ UNCHANGED <<url, out, posts, filters, fret, raw, env, resp, mret, built>>

NextNum == FormatNum

SpecNum == InitNum /\ [][NextNum]_vars

\* The sign a negative count is written with.
Sign == IF num_in.neg THEN <<"-">> ELSE <<>>

DigitValue(a) == CHOOSE k \in 0..9 : Digits[k + 1] = a

RECURSIVE FromDecimal(_)
\* The magnitude a run of decimal digits stands for.
FromDecimal(ds) ==
    IF ds = <<>> THEN <<>>
    ELSE MulAdd(FromDecimal(Front(ds)), 10, DigitValue(Last(ds)))

\* s is the decimal string of the argument: a "-" for a negative number,
\* then digits without a leading zero that stand for its magnitude.
IsDecimalOf(s) ==
    /\ Len(s) > Len(Sign)
    /\ SubSeq(s, 1, Len(Sign)) = Sign
    /\ \A i \in (Len(Sign) + 1)..Len(s) : \E k \in 1..10 : Digits[k] = s[i]
    /\ (s[Len(Sign) + 1] = "0" => Len(s) = Len(Sign) + 1)
    /\ Strip(FromDecimal(SubSeq(s, Len(Sign) + 1, Len(s)))) = num_in.mag

\* The tenths next to q + r / u: q when r is at most half of u, q + 1 when r
\* is at least half of it.
NearestTenths(x, u) ==
    {OneDecimal(DecimalBits(Strip(x.q))) : t \in {0} \cap {IF 2 * x.r <= u THEN 0 ELSE 1}}
    \cup {OneDecimal(DecimalBits(Inc(Strip(x.q)))) : t \in {0} \cap {IF 2 * x.r >= u THEN 0 ELSE 1}}

\* s is the argument divided by d and rounded to one decimal digit, then unit.
IsRounded(s, d, unit) ==
    \E t \in NearestTenths(DivBits(num_in.mag, d \div 10), d \div 10) : s = Sign \o t \o <<unit>>

\* C17 as stated: the exact part is the decimal string of n; the
\* abbreviated part equals it if and only if |n| < 1000; from 1000 on it is
\* n / 1000 rounded to one decimal digit and "k", from 1,000,000 on
\* n / 1,000,000 rounded to one decimal digit and "m"; 1234 gives 1.2k, 1999
\* gives 2.0k, 1001 gives 1.0k and 1999999 gives 2.0m.
C17_Abbreviated ==
    pc = "ret" =>
        /\ IsDecimalOf(nret[2])
        /\ (nret[1] = nret[2]) <=> ~AtLeast(num_in.mag, 1000)
        /\ (AtLeast(num_in.mag, 1000) /\ ~AtLeast(num_in.mag, 1000000))
                => IsRounded(nret[1], 1000, "k")
        /\ AtLeast(num_in.mag, 1000000) => IsRounded(nret[1], 1000000, "m")
        /\ num_in = I64(1234) => nret[1] = <<"1", ".", "2", "k">>
        /\ num_in = I64(1999) => nret[1] = <<"2", ".", "0", "k">>
        /\ num_in = I64(1001) => nret[1] = <<"1", ".", "0", "k">>
        /\ num_in = I64(1999999) => nret[1] = <<"2", ".", "0", "m">>

----------------------------------------------------------------------------
\* time

\* Duration::days(n), Duration::hours(n), Duration::minutes(n) in seconds.
Days(n) == n * 86400

Hours(n) == n * 3600

Minutes(n) == n * 60

\* created.round() as i64, then OffsetDateTime::from_unix_timestamp(..)
\* .unwrap_or(UNIX_EPOCH), in seconds since the epoch.  An f64 is a whole
\* number of seconds with or without a half, a value beyond the dates the
\* library represents (the infinities included), or NaN.  round() goes away
\* from zero on a half; NaN casts to 0.
Timestamp(f) ==
    CASE f.kind = "nan" -> 0
      [] f.kind \in {"above", "below"} -> 0
      [] f.kind = "finite" /\ f.half = 0 -> f.secs
      [] f.kind = "finite" /\ f.half = 1 /\ f.secs >= 0 -> f.secs + 1
      [] OTHER -> f.secs

\* max - min of the two instants: whole seconds, and whether a fraction of
\* a second comes on top.  t has whole seconds, n may have a fraction.
TimeDelta(t, n) ==
    IF n.secs >= t THEN [s |-> n.secs - t, f |-> n.frac]
    ELSE [s |-> t - n.secs - n.frac, f |-> n.frac]

\* time_delta > Duration::days(30)
MoreThan(delta, limit) == delta.s > limit \/ (delta.s = limit /\ delta.f = 1)

\* Date of the day z days after 1970-01-01 in the proleptic Gregorian calendar.
CivilOfEra(era, doe, yoe) ==
    [y |-> yoe + era * 400,
     doy |-> doe - (365 * yoe + yoe \div 4 - yoe \div 100)]

CivilOfMonth(y, doy, mp) ==
    [year |-> IF mp < 10 THEN y ELSE y + 1,
     month |-> IF mp < 10 THEN mp + 3 ELSE mp - 9,
     day |-> doy - (153 * mp + 2) \div 5 + 1]

CivilOfYear(c) == CivilOfMonth(c.y, c.doy, (5 * c.doy + 2) \div 153)

CivilOfDoe(era, doe) ==
    CivilOfYear(CivilOfEra(era, doe,
        (doe - doe \div 1460 + doe \div 36524 - doe \div 146096) \div 365))

Civil(z) == CivilOfDoe((z + 719468) \div 146097, (z + 719468) % 146097)

\* [month repr:short]
MonthShort ==
    <<"Jan", "Feb", "Mar", "Apr", "May", "Jun", "Jul", "Aug", "Sep", "Oct", "Nov", "Dec">>

\* A number in at least w decimal digits, padded with zeros.
Padded(n, w) ==
    [i \in 1..(w - Len(DecimalBits(Bits(n)))) |-> "0"] \o DecimalBits(Bits(n))

\* "[month repr:short] [day] '[year repr:last_two]"
ShortDate(c) ==
    <<MonthShort[c.month], " ">> \o Padded(c.day, 2) \o <<" ", "'">> \o Padded(c.year % 100, 2)

\* "[month repr:short] [day] [year], [hour]:[minute]:[second] UTC"
FullDate(c, sod) ==
    <<MonthShort[c.month], " ">> \o Padded(c.day, 2) \o <<" ">> \o Padded(c.year, 4)
    \o <<",", " ">> \o Padded(sod \div 3600, 2) \o <<":">> \o Padded((sod % 3600) \div 60, 2)
    \o <<":">> \o Padded(sod % 60, 2) \o <<" UTC">>

\* The relative part before its suffix.
RelTime(c, delta, month) ==
    IF MoreThan(delta, month) THEN ShortDate(c)
    ELSE IF delta.s \div Days(1) > 0 THEN DecimalBits(Bits(delta.s \div Days(1))) \o <<"d">>
    ELSE IF delta.s \div Hours(1) > 0 THEN DecimalBits(Bits(delta.s \div Hours(1))) \o <<"h">>
    ELSE DecimalBits(Bits(delta.s \div Minutes(1))) \o <<"m">>

\* if time_delta <= Duration::days(30) { " left" or " ago" }
Suffix(t, n, delta) ==
    IF ~MoreThan(delta, Days(30)) THEN (IF n.secs < t THEN <<" left">> ELSE <<" ago">>)
    ELSE <<>>

TimeOf(t, n, c, delta, month) ==
    <<RelTime(c, delta, month) \o Suffix(t, n, delta), FullDate(c, t % Days(1))>>

TimeAt(t, n, month) == TimeOf(t, n, Civil(t \div Days(1)), TimeDelta(t, n), month)

\* time with the full date from 30 days on, not from more than 30 days on.
time_from_a_month(f, n) == TimeAt(Timestamp(f), n, Days(30) - 1)

\* time(created), n being what OffsetDateTime::now_utc() answers.
time(f, n) == TimeAt(Timestamp(f), n, Days(30))

\* What now_utc() answers: 2023-11-14 22:13:20 or 1970-01-21 00:00:00, on
\* the second or a fraction of a second after it.
Nows == {[secs |-> s, frac |-> f] : s \in {1700000000, Days(20)}, f \in {0, 1}}

\* Distances between the timestamp and now, in seconds.
Distances ==
    {0, 1, 59, 60, 61, Hours(1) - 1, Hours(1), Hours(23) + 5, Days(1) - 1, Days(1), Days(2) + 7,
     Days(29), Days(30) - 1, Days(30), Days(30) + 1, Days(31), Days(400)}

Finite(s, h) == [kind |-> "finite", secs |-> s, half |-> h]

\* The f64 time is given: timestamps around each now, before and after it,
\* the epoch, the second before it, values no date stands for, NaN.
Createds ==
    {Finite(n.secs - d, h) : n \in Nows, d \in Distances, h \in {0, 1}}
    \cup {Finite(n.secs + d, h) : n \in Nows, d \in Distances, h \in {0, 1}}
    \cup {Finite(0, 0), Finite(-1, 0), Finite(-1, 1)}
    \cup {[kind |-> k, secs |-> 0, half |-> 0] : k \in {"nan", "above", "below"}}

InitTime ==
    /\ pc = "call"
    /\ created \in Createds
    /\ now \in Nows
    /\ tret = Idle
    /\ text_in = Idle /\ text_out = Idle
    /\ num_in = Idle /\ nret = Idle
    /\ items_in = Idle /\ awards = Idle
    /\ url = Idle /\ out = Idle
    /\ posts = Idle /\ filters = Idle /\ fret = Idle
    /\ raw = Idle /\ env = Idle /\ resp = Idle /\ mret = Idle /\ built = Idle

\* time(created)
Time ==
    /\ pc = "call"
    /\ tret' = time(created, now)
    /\ pc' = "ret"
    /\ UNCHANGED <<text_in, text_out, num_in, nret, created, now, items_in, awards>>
    /\ UNCHANGED <<url, out, posts, filters, fret, raw, env, resp, mret, built>>

NextTime == Time

SpecTime == InitTime /\ [][NextTime]_vars

\* The timestamp the claim speaks of: the argument rounded to seconds, the
\* epoch for an argument no date stands for.
Stamp == IF created.kind = "finite" THEN Timestamp(created) ELSE 0

\* |now - t|: whole seconds, and whether a fraction comes on top.
Gap == TimeDelta(Stamp, now)

\* " ago" when t is not after now, " left" when it is.
AgoOrLeft == IF Stamp > now.secs THEN <<" left">> ELSE <<" ago">>

UnitCount(n, unit) == DecimalBits(Bits(n)) \o <<unit>>

\* The largest unit of days, hours and minutes that is not zero, with its
\* suffix; minutes when the three are zero and zero_minutes allows it.
LargestUnit(rel, zero_minutes) ==
    /\ Gap.s >= Days(1) => rel = UnitCount(Gap.s \div Days(1), "d") \o AgoOrLeft
    /\ (Gap.s < Days(1) /\ Gap.s >= Hours(1)) => rel = UnitCount(Gap.s \div Hours(1), "h") \o AgoOrLeft
    /\ (Gap.s < Hours(1) /\ Gap.s >= Minutes(1))
            => rel = UnitCount(Gap.s \div Minutes(1), "m") \o AgoOrLeft
    /\ (Gap.s < Minutes(1) /\ zero_minutes) => rel = <<"0", "m">> \o AgoOrLeft

\* An argument outside the dates the library represents gives what the
\* epoch gives.
EpochFallback == created.kind \in {"above", "below"} => tret = time(Finite(0, 0), now)

\* C18 as stated: the relative part is the short date, without suffix,
\* whenever |now - t| is 30 days or more, exactly 30 days included; under 30
\* days it is the largest non-zero unit of days, hours and minutes with
\* " ago" (t not after now) or " left" (t in the future); a timestamp out of
\* range is treated as the epoch.
C18_Original ==
    pc = "ret" =>
        /\ Gap.s >= Days(30) => tret[1] = ShortDate(Civil(Stamp \div Days(1)))
        /\ Gap.s < Days(30) => LargestUnit(tret[1], FALSE)
        /\ EpochFallback

\* C18 amended: the short date is given when |now - t| is more than 30
\* days; a difference of exactly 30 days gives "30d ago" or "30d left", and
\* a difference under a minute gives "0m ago" or "0m left".
C18_RelativeTime ==
    pc = "ret" =>
        /\ MoreThan(Gap, Days(30)) => tret[1] = ShortDate(Civil(Stamp \div Days(1)))
        /\ ~MoreThan(Gap, Days(30)) => LargestUnit(tret[1], TRUE)
        /\ EpochFallback

\* A timestamp exactly 30 days before now: "30d ago".
C18_Witness ==
    /\ pc = "ret"
    /\ created.kind = "finite"
    /\ Gap = [s |-> Days(30), f |-> 0]
    /\ tret[1] = <<"3", "0", "d", " ago">>

----------------------------------------------------------------------------
\* Awards::parse

\* A JSON number with a fraction, in the text serde_json prints it with.
JFloat(text) == [t |-> "float", v |-> text]

\* Value::to_string() of a value that is neither an array nor an object.
ScalarText(value) ==
    CASE value.t = "num" -> to_string(I64(value.v))
      [] value.t = "float" -> value.v
      [] value.t = "str" -> <<"\"">> \o value.v \o <<"\"">>
      [] value.t = "bool" -> (IF value.v THEN <<"true">> ELSE <<"false">>)
      [] OTHER -> <<"null">>

IsDigit(a) == \E k \in 1..10 : Digits[k] = a

RECURSIVE DigitsValue(_)
\* The number a short run of decimal digits stands for.
DigitsValue(ds) ==
    IF ds = <<>> THEN 0
    ELSE 10 * DigitsValue(SubSeq(ds, 1, Len(ds) - 1))
         + (CHOOSE k \in 0..9 : Digits[k + 1] = ds[Len(ds)])

\* The digits of a text after its sign.
Unsigned(s) == IF s # <<>> /\ s[1] \in {"-", "+"} THEN Tail(s) ELSE s

\* i64::from_str(s).unwrap_or(default), for a text of few digits.
from_str_or(s, default) ==
    IF Unsigned(s) # <<>> /\ \A i \in 1..Len(Unsigned(s)) : IsDigit(Unsigned(s)[i])
    THEN (IF s[1] = "-" THEN -DigitsValue(Unsigned(s)) ELSE DigitsValue(Unsigned(s)))
    ELSE default

\* The Award the closure of Awards::parse pushes for one item.
Award(item) ==
    [name |-> as_str_or_default(Get(item, "name")),
     icon_url |-> format_url(as_str_or_default(Get(At(Get(item, "resized_icons"), 0), "url"))),
     description |-> as_str_or_default(Get(item, "description")),
     count |-> from_str_or(ScalarText(Get(item, "count")), 1)]

\* Awards::parse
Awards_parse(items) ==
    [i \in 1..Len(as_array_or_empty(items)) |-> Award(as_array_or_empty(items)[i])]

\* Length of the all_awardings array Awards::parse is given.
MaxAwards == 2

\* The ways the count of an award may look; "junk" is an item that is no
\* object.
CountKinds == {"absent", "5", "0", "-3", "string", "float", "bool", "junk"}

CountOf(k) ==
    CASE k = "5" -> JNum(5)
      [] k = "0" -> JNum(0)
      [] k = "-3" -> JNum(-3)
      [] k = "string" -> JStr(<<"5">>)
      [] k = "float" -> JFloat(<<"2", ".", "5">>)
      [] k = "bool" -> JBool(TRUE)
      [] OTHER -> Null

IconKinds == {"none", "static", "external"}

AwardChoices == [count : CountKinds, icon : IconKinds]

\* One element of the array.
AwardItem(c) ==
    IF c.count = "junk" THEN Junk
    ELSE JObj(F("name", JStr(<<"award", c.count>>))
              @@ Opt(c.count # "absent", "count", CountOf(c.count))
              @@ Opt(c.icon # "none", "description", JStr(<<"given", c.icon>>))
              @@ Opt(c.icon # "none", "resized_icons",
                     JArr(<<JObj(F("url", JStr(IF c.icon = "static"
                                               THEN HTTPS \o H_STATIC_MEDIA \o <<"/", "gold", "/", "icon.png">>
                                               ELSE ExternalUrl)))>>)))

\* What Awards::parse is given: nothing, a string, an object, an array.
AwardsInputs ==
    {Null, Junk, JObj(F("name", JStr(<<"award">>)))}
    \cup {JArr([i \in 1..Len(cs) |-> AwardItem(cs[i])]) :
            cs \in UNION {[1..n -> AwardChoices] : n \in 0..MaxAwards}}

InitAwards ==
    /\ pc = "call"
    /\ items_in \in AwardsInputs
    /\ awards = Idle
    /\ text_in = Idle /\ text_out = Idle
    /\ num_in = Idle /\ nret = Idle
    /\ created = Idle /\ now = Idle /\ tret = Idle
    /\ url = Idle /\ out = Idle
    /\ posts = Idle /\ filters = Idle /\ fret = Idle
    /\ raw = Idle /\ env = Idle /\ resp = Idle /\ mret = Idle /\ built = Idle

\* Awards::parse(items)
AwardsParse ==
    /\ pc = "call"
    /\ awards' = Awards_parse(items_in)
    /\ pc' = "ret"
    /\ UNCHANGED <<text_in, text_out, num_in, nret, created, now, tret, items_in>>
    /\ UNCHANGED <<url, out, posts, filters, fret, raw, env, resp, mret, built>>

NextAwards == AwardsParse

SpecAwards == InitAwards /\ [][NextAwards]_vars

\* The elements of the source array, none when the source is no array.
SourceAwards == IF items_in.t = "arr" THEN items_in.v ELSE <<>>

\* C19 as stated: one Award per element of the source array, in order, none
\* for an absent or non-array source; every count is an integer >= 0, the
\* source count when that is an integer and 1 when it is missing or does
\* not parse.
C19_Awards ==
    pc = "ret" =>
        /\ Len(awards) = Len(SourceAwards)
        /\ \A i \in 1..Len(awards) :
            /\ awards[i].name = as_str_or_default(Get(SourceAwards[i], "name"))
            /\ awards[i].count \in Nat
            /\ Get(SourceAwards[i], "count").t = "num"
                    => awards[i].count = Get(SourceAwards[i], "count").v
            /\ Get(SourceAwards[i], "count").t \in {"null", "float", "bool"}
                    => awards[i].count = 1

----------------------------------------------------------------------------
\* Media::parse when no video is found

\* preview.images[0] and its mp4 variant.
FirstPreview == At(Get(Get(PostData, "preview"), "images"), 0)

Mp4Variant == Get(Get(FirstPreview, "variants"), "mp4")

HintsImage == EqStr(Get(PostData, "post_hint"), <<"image">>)

OnImageCdn == EqStr(Get(PostData, "domain"), H_IMAGES)

\* Media::parse answered the type with the media URL taken from url_val,
\* and no alternative URL.
Answers(type, url_val) ==
    /\ mret[1] = type
    /\ mret[2].url = format_url(as_str_or_default(url_val))
    /\ mret[2].alt_url = <<>>

\* Rules (1) to (3): the image hint, self posts, galleries; has_mp4 tells
\* whether the mp4 variant counts.
FlagRules(has_mp4) ==
    /\ (HintsImage /\ has_mp4) => Answers("gif", Get(Get(Mp4Variant, "source"), "url"))
    /\ (HintsImage /\ ~has_mp4 /\ OnImageCdn) => Answers("image", Get(PostData, "url"))
    /\ (HintsImage /\ ~has_mp4 /\ ~OnImageCdn)
            => Answers("image", Get(Get(FirstPreview, "source"), "url"))
    /\ (~HintsImage /\ IsTrue(Get(PostData, "is_self")))
            => Answers("self", Get(PostData, "permalink"))
    /\ (~HintsImage /\ ~IsTrue(Get(PostData, "is_self")) /\ IsTrue(Get(PostData, "is_gallery")))
            => mret[1] = "gallery"

NoFlag ==
    /\ ~HintsImage
    /\ ~IsTrue(Get(PostData, "is_self"))
    /\ ~IsTrue(Get(PostData, "is_gallery"))

\* Width, height and poster come from the source of the first preview image.
FromPreviewSource ==
    /\ mret[2].width = as_i64_or_default(Get(Get(FirstPreview, "source"), "width"))
    /\ mret[2].height = as_i64_or_default(Get(Get(FirstPreview, "source"), "height"))
    /\ mret[2].poster = format_url(as_str_or_default(Get(Get(FirstPreview, "source"), "url")))

\* C20 as stated: with no video, the first rule that matches decides: the
\* image hint (gif from the mp4 variant, else image from the url on
\* i.redd.it and from the preview source elsewhere), is_self, is_gallery,
\* then the domain i.redd.it gives an image from the url, and anything else
\* a link with the url; width, height and poster come from the first
\* preview source for every type.
C20_Original ==
    pc = "resolved" =>
        /\ FirstWithFallback = 0 =>
            /\ FlagRules(Mp4Variant.t # "null")
            /\ (NoFlag /\ OnImageCdn) => Answers("image", Get(PostData, "url"))
            /\ (NoFlag /\ ~OnImageCdn) => Answers("link", Get(PostData, "url"))
        /\ FromPreviewSource

\* C20 amended: rule (1) gives a gif only when the mp4 variant is a JSON
\* object; rule (4) gives an image only when is_reddit_media_domain is true
\* and the domain is i.redd.it; a post on i.redd.it without that flag is a
\* link.
C20_RuleOrder ==
    pc = "resolved" =>
        /\ FirstWithFallback = 0 =>
            /\ FlagRules(is_object(Mp4Variant))
            /\ (NoFlag /\ OnImageCdn /\ IsTrue(Get(PostData, "is_reddit_media_domain")))
                    => Answers("image", Get(PostData, "url"))
            /\ (NoFlag /\ ~(OnImageCdn /\ IsTrue(Get(PostData, "is_reddit_media_domain"))))
                    => Answers("link", Get(PostData, "url"))
        /\ FromPreviewSource

\* A post on i.redd.it with none of the flags and is_reddit_media_domain
\* false: a link to the raw url, which format_url sends to /img/.
C20_Witness ==
    /\ pc = "resolved"
    /\ FirstWithFallback = 0
    /\ NoFlag /\ OnImageCdn
    /\ Get(PostData, "is_reddit_media_domain") = JBool(FALSE)
    /\ mret[1] = "link"
    /\ StartsWith(mret[2].url, <<"/", "img", "/">>)

====
